---- MODULE Spec2Model ----
(***************************************************************************)
(* Model of the web-lead-generator crawl pipeline: the deduplicating       *)
(* upsert (save_business), the run ledger (create_scrape_run /             *)
(* update_scrape_run), the result-page navigator (search_businesses,       *)
(* search_businesses_and_save) and the orchestrator (run_scrape, cleanup)  *)
(* of the three scraper variants:                                          *)
(*   "v1" src/scraper/google_scraper.py            (buffers, 'failed')     *)
(*   "v2" src/scraper/google_scraper_v2.py         (buffers, 'failed')     *)
(*   "gb" src/scraper/general_business/general_business_scraper.py         *)
(*                                                  (saves at once,        *)
(*                                                   'partial')            *)
(***************************************************************************)
EXTENDS Integers, Sequences, FiniteSets, TLC

(***************************************************************************)
(* Bounds of the model.                                                    *)
(***************************************************************************)
\* number of direct save_business calls explored by SpecStore
MaxSaves == 3
\* number of faults injected into one behaviour: storage calls that raise
\* (statement error, commit error, lost connection), browser calls that
\* raise, process interruptions
MaxFaults == 1
\* number of records the browser yields in one run
MaxExtracted == 2
\* number of listing elements a result page shows
MaxListings == 2
\* number of result pages the search engine has for a query
MaxResultPages == 2
\* number of check_session_break calls explored by SpecPacing
MaxPacingRequests == 60

(***************************************************************************)
(* Values.  An optional field is a sequence of length 0 (Python None) or 1.*)
(***************************************************************************)
None == <<>>
Some(x) == <<x>>

Names == {"A", "B"}
GbpUrls == {Some("u1"), Some("u2")}

\* The detail fields of an extracted record: two variants that differ in
\* every field, so that a field that is not written shows.
Details ==
  { [phone |-> Some("p1"), address |-> Some("a1"), rating |-> Some(45),
     has_website |-> TRUE, website_url |-> Some("w1")],
    [phone |-> None, address |-> Some("a2"), rating |-> None,
     has_website |-> FALSE, website_url |-> None] }

\* a business dict as the extractors build it
Business(name, gbp_url, d) ==
  [name |-> name, phone |-> d.phone, address |-> d.address, rating |-> d.rating,
   has_website |-> d.has_website, website_url |-> d.website_url,
   gbp_url |-> gbp_url]

Records == { Business(n, u, d) : n \in Names, u \in GbpUrls \cup {None}, d \in Details }

\* config.LOCATIONS and config.CATEGORIES, cut to their first entries; a
\* location is the sequence of its comma-separated parts.
LOCATIONS == << <<"Shorewood", " IL">>, <<"Plainfield", " IL">> >>
CATEGORIES == << "restaurant", "plumber" >>

\* config.SCRAPE_MODES as config.py defines it: the caps of each mode
SCRAPE_MODES ==
  [ test  |-> [locations |-> Some(1), categories |-> Some(2), max_pages |-> 1],
    full  |-> [locations |-> None,    categories |-> None,    max_pages |-> 5],
    debug |-> [locations |-> Some(1), categories |-> Some(1), max_pages |-> 2] ]

\* location.split(',')[0]
City(location) == location[1]

VARIABLES
  businesses,                   \* table businesses: a set of rows
  db,                           \* state of the storage connection: "ok", "aborted", "lost"
  now,                          \* the storage clock (CURRENT_TIMESTAMP), one tick per transaction
  faults,                       \* faults injected so far
  businesses_found,             \* self.businesses_found
  businesses_without_websites,  \* self.businesses_without_websites
  new_businesses_added,         \* self.new_businesses_added
  lastSave,                     \* the last save_business call: its arguments and how it ended
  variant,                      \* the scraper implementation that runs: "v1", "v2", "gb"
  mode,                         \* self.mode: "test", "full", "debug"
  locations_arg, categories_arg,\* the arguments of run_scrape: None or Some(list)
  collaborator,                 \* the browser the run drives: "any" (whatever a browser can do,
                                \* within the bounds), "scripted" (the mocked browser of SpecE2E)
                                \* or "crowded" (the long result pages of SpecCrowded)
  view,                         \* the detail view the extractor is called on by itself
                                \* (SpecExtract), or None
  save_business_attr,           \* what self.save_business is bound to: "original" (the
                                \* method) or "collect_business" (gb: search_businesses)
  temp_businesses,              \* gb: the list collect_business appends to
  writers,                      \* the save_business calls of concurrent crawl processes on
                                \* one database (SpecRace): each one's position and arguments
  scrape_modes,                 \* the module-level dict SCRAPE_MODES of the process
  started,                      \* history: the entry points the process has run, each with
                                \* the mode_config its scraper was constructed with
  pc,                           \* position of run_scrape
  exc,                          \* the exception run_scrape is propagating: "none", "browser", "db", "interrupt"
  browser, context, page,       \* self.browser, self.context, self.page: "none", "open", "closed"
  db_conn,                      \* self.db_conn: "none", "open", "closed"
  request_count,                \* self.request_count
  scrape_run,                   \* the row of scrape_runs this run created, or None
  li, ci,                       \* the for loops of run_scrape: indexes into locations, categories
  page_count,                   \* page_count of the current query
  nlinks,                       \* len(business_links) of the current page
  i,                            \* the listing index of the current page
  current,                      \* the record extracted from the open listing, not yet handed on
  all_businesses,               \* v1, v2: the records buffered by the current query
  ev,                           \* what the last step of the run did
  queries,                      \* history: the (li, ci) pairs searched, in order
  extracted,                    \* history: number of records extracted by this run
  handed,                       \* history: number of records passed to save_business
  terminal_updates,             \* history: update_scrape_run calls that were committed
  requests,                     \* history: number of check_session_break calls
  breaks,                       \* history: number of session_break calls
  waited                        \* history: polite_delay or session_break slept since the last navigation

dbVars == << businesses, now, businesses_without_websites, new_businesses_added,
            lastSave >>
handles == << browser, context, page, db_conn >>
loopVars == << li, ci, page_count, nlinks, i, current, all_businesses >>
histVars == << queries, extracted, handed, terminal_updates >>
paceVars == << requests, breaks, waited >>

config == << variant, mode, locations_arg, categories_arg, collaborator, view,
            save_business_attr, temp_businesses, writers, scrape_modes,
            started >>

vars == << dbVars, db, faults, businesses_found, config, pc, exc, handles,
           request_count, scrape_run, loopVars, ev, histVars, paceVars >>

NoSave == [business |-> None, location |-> None, category |-> None, result |-> "none"]

(***************************************************************************)
(* save_business: the statements it sends.                                 *)
(***************************************************************************)
\* SELECT id FROM businesses WHERE gbp_url = %s
\* SELECT id FROM businesses WHERE name = %s AND city = %s
Existing_NeverFound(rows, business, location) == {}

Existing(rows, business, location) ==
  IF business.gbp_url # None
    THEN { r \in rows : r.gbp_url = business.gbp_url }
    ELSE { r \in rows : r.name = business.name /\ r.city = City(location) }

\* UPDATE businesses SET name, phone, address, has_website, website_url,
\*   google_rating, last_scraped = CURRENT_TIMESTAMP WHERE gbp_url = %s
UpdateByUrl_KeepsPhone(rows, business, t) ==
  { IF r.gbp_url = business.gbp_url
      THEN [r EXCEPT !.name = business.name,
                     !.address = business.address,
                     !.has_website = business.has_website,
                     !.website_url = business.website_url,
                     !.google_rating = business.rating,
                     !.last_scraped = Some(t)]
      ELSE r : r \in rows }

UpdateByUrl(rows, business, t) ==
  { IF r.gbp_url = business.gbp_url
      THEN [r EXCEPT !.name = business.name,
                     !.phone = business.phone,
                     !.address = business.address,
                     !.has_website = business.has_website,
                     !.website_url = business.website_url,
                     !.google_rating = business.rating,
                     !.last_scraped = Some(t)]
      ELSE r : r \in rows }

\* UPDATE businesses SET phone, address, has_website, website_url,
\*   google_rating, last_scraped = CURRENT_TIMESTAMP WHERE name = %s AND city = %s
UpdateByNameCity_KeepsTime(rows, business, location, t) ==
  { IF r.name = business.name /\ r.city = City(location)
      THEN [r EXCEPT !.phone = business.phone,
                     !.address = business.address,
                     !.has_website = business.has_website,
                     !.website_url = business.website_url,
                     !.google_rating = business.rating]
      ELSE r : r \in rows }

UpdateByNameCity(rows, business, location, t) ==
  { IF r.name = business.name /\ r.city = City(location)
      THEN [r EXCEPT !.phone = business.phone,
                     !.address = business.address,
                     !.has_website = business.has_website,
                     !.website_url = business.website_url,
                     !.google_rating = business.rating,
                     !.last_scraped = Some(t)]
      ELSE r : r \in rows }

\* The INSERT names no last_scraped: the column takes the table's default.
\* The table definition is not part of the sources; the default is taken to
\* be the transaction's timestamp.
DefaultLastScraped(t) == Some(t)

\* INSERT INTO businesses (name, phone, address, city, category, gbp_url,
\*   has_website, website_url, google_rating) VALUES (...)
InsertRow(rows, business, location, category, t) ==
  rows \cup { [id |-> Cardinality(rows) + 1,
               name |-> business.name,
               phone |-> business.phone,
               address |-> business.address,
               city |-> City(location),
               category |-> category,
               gbp_url |-> business.gbp_url,
               has_website |-> business.has_website,
               website_url |-> business.website_url,
               google_rating |-> business.rating,
               last_scraped |-> DefaultLastScraped(t)] }

\* the rows after the statements of one save_business ran and were committed
Upserted_MovesRow(rows, business, location, category, t) ==
  IF Existing(rows, business, location) # {}
    THEN IF business.gbp_url # None
           THEN { IF r.gbp_url = business.gbp_url
                    THEN [r EXCEPT !.city = City(location), !.category = category]
                    ELSE r : r \in UpdateByUrl(rows, business, t) }
           ELSE UpdateByNameCity(rows, business, location, t)
    ELSE InsertRow(rows, business, location, category, t)

Upserted(rows, business, location, category, t) ==
  IF Existing(rows, business, location) # {}
    THEN IF business.gbp_url # None
           THEN UpdateByUrl(rows, business, t)
           ELSE UpdateByNameCity(rows, business, location, t)
    ELSE InsertRow(rows, business, location, category, t)

(***************************************************************************)
(* save_business(business, location, category), the whole method: the      *)
(* lookup, the update or insert, the commit, the counters, and the except  *)
(* branch with its rollback.  The storage collaborator decides how it ends:*)
(*   committed         every call returned                                 *)
(*   execute raises    the lookup or the write raised (constraint, ...);   *)
(*                     rollback() returns                                  *)
(*   commit raises     the writes ran, commit() raised; rollback() returns *)
(*   connection lost   a call raised and rollback() raises as well: the    *)
(*                     exception leaves save_business                      *)
(* A commit that raises has committed nothing.                             *)
(***************************************************************************)
SaveCommitted(business, location, category) ==
  /\ db = "ok"
  /\ businesses' = Upserted(businesses, business, location, category, now + 1)
  /\ new_businesses_added' =
       IF Existing(businesses, business, location) = {}
         THEN new_businesses_added + 1 ELSE new_businesses_added
  /\ businesses_without_websites' =
       IF ~business.has_website
         THEN businesses_without_websites + 1 ELSE businesses_without_websites
  /\ lastSave' = [business |-> business, location |-> location, category |-> category,
                  result |-> IF Existing(businesses, business, location) = {}
                               THEN "inserted" ELSE "updated"]
  /\ UNCHANGED << db, faults >>

\* the lookup or the write raises; except: rollback() returns
SaveExecuteRaises(business, location, category) ==
  /\ db = "ok" /\ faults < MaxFaults /\ faults' = faults + 1
  /\ db' = "ok"
  /\ lastSave' = [business |-> business, location |-> location, category |-> category,
                  result |-> "rolledback"]
  /\ UNCHANGED << businesses, new_businesses_added, businesses_without_websites >>

\* commit() raises after the writes ran; except: rollback() returns
SaveCommitRaises(business, location, category) ==
  /\ db = "ok" /\ faults < MaxFaults /\ faults' = faults + 1
  /\ new_businesses_added' =
       IF Existing(businesses, business, location) = {}
         THEN new_businesses_added + 1 ELSE new_businesses_added
  /\ lastSave' = [business |-> business, location |-> location, category |-> category,
                  result |-> "rolledback"]
  /\ UNCHANGED << businesses, db, businesses_without_websites >>

\* the connection is lost (now, at stage "execute" or "commit", or earlier):
\* the call raises, and rollback() in the except branch raises too
SaveConnectionLost(business, location, category) ==
  /\ \/ /\ db = "ok" /\ faults < MaxFaults /\ faults' = faults + 1
        /\ \E stage \in {"execute", "commit"} :
             new_businesses_added' =
               IF stage = "commit" /\ Existing(businesses, business, location) = {}
                 THEN new_businesses_added + 1 ELSE new_businesses_added
     \/ /\ db = "lost" /\ faults' = faults
        /\ UNCHANGED new_businesses_added
  /\ db' = "lost"
  /\ lastSave' = [business |-> business, location |-> location, category |-> category,
                  result |-> "raised"]
  /\ UNCHANGED << businesses, businesses_without_websites >>

save_business(business, location, category) ==
  /\ now' = now + 1
  /\ \/ SaveCommitted(business, location, category)
     \/ SaveExecuteRaises(business, location, category)
     \/ SaveCommitRaises(business, location, category)
     \/ SaveConnectionLost(business, location, category)

(***************************************************************************)
(* SpecStore: the store under any sequence of save_business calls.         *)
(***************************************************************************)
InitStore ==
  /\ businesses = {}
  /\ db = "ok"
  /\ now = 0
  /\ faults = 0
  /\ businesses_found = 0
  /\ businesses_without_websites = 0
  /\ new_businesses_added = 0
  /\ lastSave = NoSave
  /\ variant = "gb" /\ mode = "test" /\ locations_arg = None /\ categories_arg = None
  /\ collaborator = "any" /\ view = None
  /\ save_business_attr = "original" /\ temp_businesses = << >>
  /\ writers = << >>
  /\ scrape_modes = SCRAPE_MODES /\ started = << >>
  /\ pc = "store" /\ exc = "none"
  /\ browser = "none" /\ context = "none" /\ page = "none" /\ db_conn = "open"
  /\ request_count = 0 /\ scrape_run = None
  /\ li = 1 /\ ci = 1 /\ page_count = 0 /\ nlinks = 0 /\ i = 0
  /\ current = None /\ all_businesses = << >>
  /\ ev = "none"
  /\ queries = << >> /\ extracted = 0 /\ handed = 0 /\ terminal_updates = 0
  /\ requests = 0 /\ breaks = 0 /\ waited = FALSE

StoreSave ==
  /\ pc = "store"
  /\ now < MaxSaves
  /\ \E business \in Records, l \in 1..Len(LOCATIONS) :
       save_business(business, LOCATIONS[l], CATEGORIES[1])
  /\ UNCHANGED << paceVars, businesses_found, config, pc, exc, handles, request_count,
                  scrape_run, loopVars, ev, histVars >>

NextStore == StoreSave

SpecStore == InitStore /\ [][NextStore]_vars

(***************************************************************************)
(* SpecSightings: the store under save_business calls of any record, under *)
(* any location and any category.                                          *)
(***************************************************************************)
MaxSightings == 2

Sighting ==
  /\ pc = "store"
  /\ now < MaxSightings
  /\ \E business \in Records, l \in 1..Len(LOCATIONS), c \in 1..Len(CATEGORIES) :
       save_business(business, LOCATIONS[l], CATEGORIES[c])
  /\ UNCHANGED << paceVars, businesses_found, config, pc, exc, handles, request_count,
                  scrape_run, loopVars, ev, histVars >>

NextSightings == Sighting

SpecSightings == InitStore /\ [][NextSightings]_vars

(***************************************************************************)
(* SpecRace: two crawl processes, each with its own connection to the same *)
(* database, each calling save_business once.  A call is three steps, the  *)
(* lookup, the write and the commit, and the steps of the two calls        *)
(* interleave.  The storage is PostgreSQL at its default isolation (read   *)
(* committed): a statement sees the rows committed before it, an UPDATE    *)
(* waits for an uncommitted UPDATE of the same rows, an INSERT waits for   *)
(* an uncommitted INSERT of the same unique key.                           *)
(***************************************************************************)
Crawlers == {"c1", "c2"}

\* a crawler that has not called save_business yet
Idle == [stage |-> "idle", business |-> None, location |-> None, category |-> None,
         existing |-> FALSE, statement |-> "none", result |-> "none"]

\* The table definition is not part of the sources; the data model gives
\* businesses.gbp_url as unique when present.
UniqueGbpUrl(rows, business) ==
  business.gbp_url = None \/ ~(\E r \in rows : r.gbp_url = business.gbp_url)

\* the rows the UPDATE of a call is keyed on
Targets(rows, w) ==
  IF w.business.gbp_url # None
    THEN { r \in rows : r.gbp_url = w.business.gbp_url }
    ELSE { r \in rows : r.name = w.business.name /\ r.city = City(w.location) }

\* crawler p must wait for crawler q: q holds an uncommitted UPDATE of rows
\* p's UPDATE is keyed on, or an uncommitted INSERT of the gbp_url p inserts
Waits(p, q) ==
  /\ writers[q].stage = "commit"
  /\ IF writers[p].existing
       THEN /\ writers[q].statement = "update"
            /\ Targets(businesses, writers[p]) \cap Targets(businesses, writers[q]) # {}
       ELSE /\ writers[q].statement = "insert"
            /\ writers[p].business.gbp_url # None
            /\ writers[p].business.gbp_url = writers[q].business.gbp_url

\* save_business(business, location, category) is entered
RaceCall(p) ==
  /\ writers[p].stage = "idle"
  /\ \E business \in Records, l \in 1..Len(LOCATIONS) :
       writers' = [writers EXCEPT ![p] =
                     [Idle EXCEPT !.stage = "lookup", !.business = business,
                                  !.location = LOCATIONS[l],
                                  !.category = CATEGORIES[1]]]
  /\ UNCHANGED << businesses, now >>

\* SELECT id FROM businesses WHERE ...; existing = cursor.fetchone()
RaceLookup(p) ==
  /\ writers[p].stage = "lookup"
  /\ writers' = [writers EXCEPT
                   ![p].existing =
                      Existing(businesses, writers[p].business, writers[p].location) # {},
                   ![p].stage = "write"]
  /\ UNCHANGED << businesses, now >>

\* if existing: UPDATE ... else: INSERT ...; an INSERT that breaks the
\* unique key raises: except: rollback()
RaceWrite(p) ==
  /\ writers[p].stage = "write"
  /\ \A q \in Crawlers \ {p} : ~Waits(p, q)
  /\ writers' =
       IF writers[p].existing
         THEN [writers EXCEPT ![p].statement = "update", ![p].stage = "commit"]
         ELSE IF UniqueGbpUrl(businesses, writers[p].business)
                THEN [writers EXCEPT ![p].statement = "insert", ![p].stage = "commit"]
                ELSE [writers EXCEPT ![p].result = "rolledback", ![p].stage = "done"]
  /\ UNCHANGED << businesses, now >>

\* self.db_conn.commit()
RaceCommit(p) ==
  /\ writers[p].stage = "commit"
  /\ now' = now + 1
  /\ businesses' =
       LET w == writers[p]
       IN  IF w.statement = "insert"
             THEN InsertRow(businesses, w.business, w.location, w.category, now + 1)
             ELSE IF w.business.gbp_url # None
                    THEN UpdateByUrl(businesses, w.business, now + 1)
                    ELSE UpdateByNameCity(businesses, w.business, w.location, now + 1)
  /\ writers' = [writers EXCEPT
                   ![p].result = IF writers[p].statement = "insert"
                                   THEN "inserted" ELSE "updated",
                   ![p].stage = "done"]

InitRace ==
  /\ businesses = {}
  /\ db = "ok"
  /\ now = 0
  /\ faults = 0
  /\ businesses_found = 0
  /\ businesses_without_websites = 0
  /\ new_businesses_added = 0
  /\ lastSave = NoSave
  /\ variant = "gb" /\ mode = "test" /\ locations_arg = None /\ categories_arg = None
  /\ collaborator = "any" /\ view = None
  /\ save_business_attr = "original" /\ temp_businesses = << >>
  /\ writers = [p \in Crawlers |-> Idle]
  /\ scrape_modes = SCRAPE_MODES /\ started = << >>
  /\ pc = "race" /\ exc = "none"
  /\ browser = "none" /\ context = "none" /\ page = "none" /\ db_conn = "open"
  /\ request_count = 0 /\ scrape_run = None
  /\ li = 1 /\ ci = 1 /\ page_count = 0 /\ nlinks = 0 /\ i = 0
  /\ current = None /\ all_businesses = << >>
  /\ ev = "none"
  /\ queries = << >> /\ extracted = 0 /\ handed = 0 /\ terminal_updates = 0
  /\ requests = 0 /\ breaks = 0 /\ waited = FALSE

NextRace ==
  /\ pc = "race"
  /\ \E p \in Crawlers :
       RaceCall(p) \/ RaceLookup(p) \/ RaceWrite(p) \/ RaceCommit(p)
  /\ UNCHANGED << db, faults, businesses_found, businesses_without_websites,
                  new_businesses_added, lastSave, variant, mode, locations_arg,
                  categories_arg, collaborator, view, save_business_attr,
                  temp_businesses, scrape_modes, started, pc, exc, handles,
                  request_count, scrape_run, loopVars, ev, histVars, paceVars >>

SpecRace == InitRace /\ [][NextRace]_vars

(***************************************************************************)
(* The field extractor: extract_business_details of v2 and gb.             *)
(* A text is a sequence of tokens.  A detail view says whether its panel   *)
(* appears and, for every pattern the extractor searches the page content  *)
(* with, what the pattern's group captures there (None: no match); the     *)
(* order in which the patterns are tried, the clean-up of the captured     *)
(* text and the handling of exceptions are the extractor's.                *)
(***************************************************************************)
\* str.strip(): the text without its leading and trailing blanks
RECURSIVE lstrip(_)
lstrip(t) == IF t # << >> /\ Head(t) = " " THEN lstrip(Tail(t)) ELSE t

RECURSIVE rstrip(_)
rstrip(t) ==
  IF t # << >> /\ t[Len(t)] = " " THEN rstrip(SubSeq(t, 1, Len(t) - 1)) ELSE t

strip(t) == rstrip(lstrip(t))

\* re.sub(r'^tel:', '', phone)
re_sub_tel(t) == IF t # << >> /\ Head(t) = "tel:" THEN Tail(t) ELSE t

\* for pattern in patterns: match = re.search(pattern, page_content)
\*     if match: ...; break
\* ms[k] is what the group of pattern k captures: the first match wins
FirstMatch_LastWins(ms) ==
  IF \E k \in 1..Len(ms) : ms[k] # None
    THEN ms[CHOOSE k \in 1..Len(ms) :
              ms[k] # None /\ \A j \in (k + 1)..Len(ms) : ms[j] = None]
    ELSE None

FirstMatch(ms) ==
  IF \E k \in 1..Len(ms) : ms[k] # None
    THEN ms[CHOOSE k \in 1..Len(ms) :
              ms[k] # None /\ \A j \in 1..(k - 1) : ms[j] = None]
    ELSE None

\* phone_patterns: the tel link, the labeled phone, the phone between markup
\* boundaries, the bare digit grouping
phone_patterns(v) == << v.tel, v.labeled, v.markup, v.bare >>

phone(v) ==
  LET match == FirstMatch(phone_patterns(v))
  IN  IF match # None THEN Some(re_sub_tel(strip(match[1]))) ELSE None

\* address_patterns: a street address in a span, a numbered street address
\* between markup boundaries
address_patterns(v) == << v.span_addr, v.num_addr >>

address(v) ==
  LET match == FirstMatch(address_patterns(v))
  IN  IF match # None THEN Some(strip(match[1])) ELSE None

\* float(rating_match.group(1)): the group is digits, optionally a point and
\* more digits, which float() always parses; ratings are counted in tenths
float(t) == 10 * t.whole + (IF t.frac # None THEN t.frac[1] ELSE 0)

rating_AlwaysSet(v) ==
  IF v.rating_token # None THEN Some(float(v.rating_token[1])) ELSE Some(0)

rating(v) ==
  IF v.rating_token # None THEN Some(float(v.rating_token[1])) ELSE None

\* the outbound URLs a detail view may link to
Urls ==
  { [scheme |-> "https://", sub |-> "",     domain |-> "acme.com",     path |-> ""],
    [scheme |-> "",         sub |-> "www.", domain |-> "acme.com",     path |-> ""],
    [scheme |-> "https://", sub |-> "www.", domain |-> "google.com",   path |-> "/url"],
    [scheme |-> "https://", sub |-> "www.", domain |-> "facebook.com", path |-> ""] }

\* the domains named by the patterns and by the validation list
SocialDomains ==
  {"facebook.com", "instagram.com", "twitter.com", "youtube.com", "yelp.com"}

\* website_patterns[k] can capture URL u in some page content:
\*  1  https?:// not followed by (www.)google. maps. facebook. instagram.
\*     twitter. youtube. yelp., before a Website/Visit label
\*  2  the href of the authority / "Open website" anchor, whatever it is
\*  3  https?:// anything, before a Website label
\*  4  https?:// not followed by (www.)google. or maps., the link text naming
\*     a domain
CanCapture(k, u) ==
  CASE k = 1 -> /\ u.scheme # ""
                /\ ~(u.domain = "google.com" /\ u.sub \in {"", "www."})
                /\ u.sub # "maps."
                /\ ~(u.sub = "" /\ u.domain \in SocialDomains)
    [] k = 2 -> TRUE
    [] k = 3 -> u.scheme # ""
    [] k = 4 -> /\ u.scheme # ""
                /\ ~(u.domain = "google.com" /\ u.sub \in {"", "www."})
                /\ u.sub # "maps."

\* if not website_url.startswith('http'): website_url = 'https://' + website_url
with_scheme(u) == IF u.scheme = "" THEN [u EXCEPT !.scheme = "https://"] ELSE u

\* any(domain in website_url.lower() for domain in ['facebook.com',
\*   'instagram.com', 'twitter.com', 'youtube.com', 'yelp.com', 'google.com/maps'])
is_social_or_review(u) ==
  \/ u.domain \in SocialDomains
  \/ u.domain = "google.com" /\ u.path = "/maps"

\* for pattern in website_patterns: if match: website_url = ...;
\*     if not any(...): break   else: website_url = None
RECURSIVE scan_website_patterns(_, _)
scan_website_patterns(ms, k) ==
  IF k > Len(ms) THEN None
  ELSE IF ms[k] # None /\ ~is_social_or_review(with_scheme(ms[k][1]))
         THEN Some(with_scheme(ms[k][1]))
         ELSE scan_website_patterns(ms, k + 1)

\* the website part of the record.
\* gb: has_website when one of the website selectors finds an element; an
\*     exception of query_selector is caught and leaves has_website False;
\*     website_url is None.
\* v2: clicks the Menu button, reads the content again and scans it with
\*     website_patterns; an exception of one of these calls is caught and
\*     leaves website_url None; has_website = bool(website_url)
website(v) ==
  IF variant = "gb"
    THEN [has_website |-> v.site.selector = "found", website_url |-> None]
    ELSE LET website_url ==
               IF v.site.menu = "raises" THEN None
               ELSE scan_website_patterns(v.site.matches, 1)
         IN  [has_website |-> website_url # None, website_url |-> website_url]

\* the exceptions that reach the outer except of extract_business_details:
\* neither '[role="main"]' nor '.xpdopen' appears within its timeout, or the
\* panel appears and page.content(), which phone, address and rating are
\* read from, raises
Aborts(v) == v.panel \in {"timeout", "unreadable"}

\* extract_business_details(business_name): None, or the record without its
\* gbp_url, which the caller sets
extract_business_details(business_name, v) ==
  IF Aborts(v) THEN None
  ELSE Some([name |-> business_name,
             phone |-> phone(v),
             address |-> address(v),
             rating |-> rating(v),
             has_website |-> website(v).has_website,
             website_url |-> website(v).website_url])

\* the detail views the extractor is tried on
WebsiteViews(var) ==
  IF var = "gb"
    THEN [selector : {"found", "none", "raises"}]
    ELSE { w \in [menu : {"ok", "raises"},
                  matches : [1..4 -> {None} \cup { Some(u) : u \in Urls }]] :
             \A k \in 1..4 :
               w.matches[k] # None => CanCapture(k, w.matches[k][1]) }

Views(var) ==
  [ panel : {"main", "xpdopen", "timeout", "unreadable"},
    tel : {None, Some(<<"+18155551234">>), Some(<<" ", "tel:", "+18155551234">>)},
    labeled : {None, Some(<<"(312) 555-0002">>)},
    markup : {None, Some(<<"312-555-0003">>)},
    bare : {None, Some(<<"3125550004">>)},
    span_addr : {None, Some(<<" ", "12 Main St", " ">>)},
    num_addr : {None, Some(<<"34 Oak Ave">>)},
    rating_token : {None, Some([whole |-> 4, frac |-> Some(5)]),
                          Some([whole |-> 47, frac |-> None])},
    site : WebsiteViews(var) ]

(***************************************************************************)
(* SpecExtract: the extractor of v2 or gb called once on any detail view,  *)
(* as the navigator calls it for the listing it opened.                    *)
(***************************************************************************)
InitExtract ==
  /\ businesses = {}
  /\ db = "ok"
  /\ now = 0
  /\ faults = 0
  /\ businesses_found = 0
  /\ businesses_without_websites = 0
  /\ new_businesses_added = 0
  /\ lastSave = NoSave
  /\ variant \in {"v2", "gb"} /\ mode = "test"
  /\ locations_arg = None /\ categories_arg = None
  /\ collaborator = "any" /\ view \in { Some(v) : v \in Views(variant) }
  /\ save_business_attr = "original" /\ temp_businesses = << >>
  /\ writers = << >>
  /\ scrape_modes = SCRAPE_MODES /\ started = << >>
  /\ pc = "extract" /\ exc = "none"
  /\ browser = "open" /\ context = "open" /\ page = "open" /\ db_conn = "open"
  /\ request_count = 0 /\ scrape_run = None
  /\ li = 1 /\ ci = 1 /\ page_count = 0 /\ nlinks = 1 /\ i = 0
  /\ current = None /\ all_businesses = << >>
  /\ ev = "none"
  /\ queries = << >> /\ extracted = 0 /\ handed = 0 /\ terminal_updates = 0
  /\ requests = 0 /\ breaks = 0 /\ waited = FALSE

\* current_url = self.page.url
\* business = await self.extract_business_details(business_name)
\* if business: business['gbp_url'] = current_url
ExtractDetails ==
  /\ pc = "extract"
  /\ LET business == extract_business_details("A", view[1])
     IN  IF business # None
           THEN /\ current' = Some([ f \in DOMAIN business[1] \cup {"gbp_url"} |->
                                      IF f = "gbp_url" THEN Some("u1")
                                                       ELSE business[1][f] ])
                /\ extracted' = extracted + 1
                /\ ev' = "extracted"
           ELSE /\ current' = None
                /\ extracted' = extracted
                /\ ev' = "no_record"
  /\ pc' = "extracted"
  /\ UNCHANGED << paceVars, dbVars, db, faults, businesses_found, config, exc, handles,
                  request_count, scrape_run, li, ci, page_count, nlinks, i,
                  all_businesses, queries, handed, terminal_updates >>

NextExtract == ExtractDetails

SpecExtract == InitExtract /\ [][NextExtract]_vars

(***************************************************************************)
(* Configuration (config.py) and the lists run_scrape works on.            *)
(***************************************************************************)
REQUESTS_PER_SESSION == 10

\* self.mode_config
mode_config == scrape_modes[mode]

\* seq[:n]
Prefix(seq, n) == SubSeq(seq, 1, IF n < Len(seq) THEN n ELSE Len(seq))

\* (arg or default)[:cap] when the mode gives a cap, else (arg or default);
\* arg is None or Some(list)
Resolve(arg, default, cap) ==
  LET base == IF arg # None /\ arg[1] # << >> THEN arg[1] ELSE default
  IN  IF cap # None THEN Prefix(base, cap[1]) ELSE base

\* the lists run_scrape iterates
locations == Resolve(locations_arg, LOCATIONS, mode_config.locations)
categories == Resolve(categories_arg, CATEGORIES, mode_config.categories)
max_pages == mode_config.max_pages

\* the listings one page processes: range(min(20, len(business_links)))
PerPageCap == 20
PageListings(n) == IF n < PerPageCap THEN n ELSE PerPageCap

\* check_session_break: count the request; at the threshold session_break
\* sleeps and resets the counter
check_session_break_Late(rc) ==
  IF rc + 1 > REQUESTS_PER_SESSION THEN 0 ELSE rc + 1

check_session_break(rc) ==
  IF rc + 1 >= REQUESTS_PER_SESSION THEN 0 ELSE rc + 1

\* the call of check_session_break on counter rc ends in session_break
session_break(rc) == rc + 1 >= REQUESTS_PER_SESSION

\* await self.check_session_break(), with the history of the calls
RecordRequest ==
  /\ request_count' = check_session_break(request_count)
  /\ requests' = requests + 1
  /\ breaks' = IF session_break(request_count) THEN breaks + 1 ELSE breaks

\* The records the browser yields in a run: business A with a website under
\* one profile URL, business B without a website under a second one and, in
\* v1, under none.  v2 and gb set gbp_url to page.url;
\* v1 takes it from the listing's parent link, which may be missing.
\* The scripted browser shows the same three listings for every query.
ScriptedListings ==
  << [name |-> "A", gbp_url |-> Some("u1")],
     [name |-> "B", gbp_url |-> Some("u2")],
     [name |-> "C", gbp_url |-> Some("u3")] >>

\* The crowded browser: every result page shows one listing more than the
\* per-page cap and has a next-page link; the first listing of a page has no
\* name element, the others are listings of business A; no detail view shows
\* a website.
CrowdedListing(k) ==
  IF k = 0 THEN [name |-> None, gbp_url |-> Some("u1")]
           ELSE [name |-> Some("A"), gbp_url |-> Some("u2")]

CrowdedDetail == CHOOSE d \in Details : ~d.has_website

\* v2, gb: business_name = await name_elem.inner_text() if name_elem
\*                        else f"Business {i+1}"
business_name(k, name_elem) ==
  IF name_elem # None THEN name_elem[1] ELSE "Business " \o ToString(k + 1)

Extractable ==
  CASE collaborator = "scripted" ->
         { Business(ScriptedListings[i + 1].name, ScriptedListings[i + 1].gbp_url, d) :
             d \in Details }
    [] collaborator = "crowded" ->
         IF variant = "v1"
           THEN { Business(nm, CrowdedListing(i).gbp_url, CrowdedDetail) :
                    nm \in { CrowdedListing(i).name[k] :
                               k \in 1..Len(CrowdedListing(i).name) } }
           ELSE { Business(business_name(i, CrowdedListing(i).name),
                           CrowdedListing(i).gbp_url, CrowdedDetail) }
    [] OTHER ->
         { r \in Records :
             /\ r.gbp_url = None => (variant = "v1" /\ r.name = "B")
             /\ r.gbp_url = Some("u1") <=> r.name = "A"
             /\ r.has_website <=> r.name = "A" }

\* v1: the listing at index i may have no name element
MayLackName ==
  CASE collaborator = "scripted" -> FALSE
    [] collaborator = "crowded" -> CrowdedListing(i).name = None
    [] OTHER -> TRUE

\* v2, gb: the detail view of a listing may never load
MayNotLoad == collaborator = "any"

(***************************************************************************)
(* SpecPacing: the pacing controller under any sequence of its calls: a    *)
(* caller that records a request and navigates, or waits.                  *)
(***************************************************************************)
InitPacing ==
  /\ businesses = {}
  /\ db = "ok"
  /\ now = 0
  /\ faults = 0
  /\ businesses_found = 0
  /\ businesses_without_websites = 0
  /\ new_businesses_added = 0
  /\ lastSave = NoSave
  /\ variant = "gb" /\ mode = "test" /\ locations_arg = None /\ categories_arg = None
  /\ collaborator = "any" /\ view = None
  /\ save_business_attr = "original" /\ temp_businesses = << >>
  /\ writers = << >>
  /\ scrape_modes = SCRAPE_MODES /\ started = << >>
  /\ pc = "pacing" /\ exc = "none"
  /\ browser = "open" /\ context = "open" /\ page = "open" /\ db_conn = "none"
  /\ request_count = 0 /\ scrape_run = None
  /\ li = 1 /\ ci = 1 /\ page_count = 0 /\ nlinks = 0 /\ i = 0
  /\ current = None /\ all_businesses = << >>
  /\ ev = "none"
  /\ queries = << >> /\ extracted = 0 /\ handed = 0 /\ terminal_updates = 0
  /\ requests = 0 /\ breaks = 0 /\ waited = FALSE

\* await self.check_session_break(), followed by the navigation it precedes
PacingRequest ==
  /\ pc = "pacing"
  /\ requests < MaxPacingRequests
  /\ RecordRequest
  /\ waited' = FALSE
  /\ UNCHANGED << dbVars, db, faults, businesses_found, config, pc, exc, handles,
                  scrape_run, loopVars, ev, histVars >>

\* await self.polite_delay()
PacingDelay ==
  /\ pc = "pacing"
  /\ waited' = TRUE
  /\ UNCHANGED << dbVars, db, faults, businesses_found, config, pc, exc, handles,
                  request_count, scrape_run, loopVars, ev, histVars, requests,
                  breaks >>

NextPacing == PacingRequest \/ PacingDelay

SpecPacing == InitPacing /\ [][NextPacing]_vars

(***************************************************************************)
(* The run ledger.                                                         *)
(***************************************************************************)
\* create_scrape_run: INSERT INTO scrape_runs (start_time, status)
\*                    VALUES (CURRENT_TIMESTAMP, 'running')
NewRun ==
  Some([status |-> "running", businesses_found |-> None,
        businesses_without_websites |-> None, new_businesses_added |-> None,
        error_log |-> None])

\* update_scrape_run(run_id, status, error_log), its statement committed
UpdateRunCommitted_SwapsColumns(status, error_log) ==
  /\ db = "ok"
  /\ scrape_run' =
       Some([status |-> status,
             businesses_found |-> Some(new_businesses_added),
             businesses_without_websites |-> Some(businesses_without_websites),
             new_businesses_added |-> Some(businesses_found),
             error_log |-> error_log])
  /\ terminal_updates' = terminal_updates + 1
  /\ UNCHANGED << db, faults >>

UpdateRunCommitted(status, error_log) ==
  /\ db = "ok"
  /\ scrape_run' =
       Some([status |-> status,
             businesses_found |-> Some(businesses_found),
             businesses_without_websites |-> Some(businesses_without_websites),
             new_businesses_added |-> Some(new_businesses_added),
             error_log |-> error_log])
  /\ terminal_updates' = terminal_updates + 1
  /\ UNCHANGED << db, faults >>

\* update_scrape_run raises: the statement fails (the transaction stays
\* aborted: nothing rolls it back), the commit fails, or the connection is
\* lost; on an aborted transaction or a lost connection it always raises
UpdateRunRaises ==
  /\ \/ /\ db = "ok" /\ faults < MaxFaults /\ faults' = faults + 1
        /\ db' \in {"ok", "aborted", "lost"}
     \/ /\ db \in {"aborted", "lost"}
        /\ UNCHANGED << db, faults >>
  /\ UNCHANGED << scrape_run, terminal_updates >>

\* the status and the text the except branch of run_scrape writes
FailStatus == IF variant = "gb" THEN "partial" ELSE "failed"
ErrorLog(e) ==
  IF variant = "gb" THEN Some(<<"Partial results saved. Error: ", e>>) ELSE Some(<<e>>)

(***************************************************************************)
(* The ways a run is started: a scraper of any variant constructed in any  *)
(* mode and run_scrape() called with no lists (test_scrape, full_scrape,   *)
(* debug_scrape construct it so; test_scrape of v2 and gb lowers the       *)
(* category cap of the mode first, see SpecModes); run_interactive_scrape  *)
(* of                                                                      *)
(* general_business_finder.py, which runs gb in the mode the user picks    *)
(* with the one location typed in and the category "business"; a caller    *)
(* that passes run_scrape a list of two locations.                         *)
(***************************************************************************)
EntryPoints ==
  { [variant |-> v, mode |-> m, locations |-> None, categories |-> None] :
      v \in {"v1", "v2", "gb"}, m \in {"test", "full", "debug"} }
  \cup
  { [variant |-> "gb", mode |-> m, locations |-> Some(<< <<"60601">> >>),
     categories |-> Some(<<"business">>)] : m \in {"test", "full", "debug"} }
  \cup
  { [variant |-> "gb", mode |-> m,
     locations |-> Some(<< <<"60601">>, <<"60602">> >>),
     categories |-> Some(<<"business">>)] : m \in {"test", "full", "debug"} }

(***************************************************************************)
(* run_scrape, step by step.                                               *)
(***************************************************************************)
Init ==
  /\ businesses = {}
  /\ db = "ok"
  /\ now = 0
  /\ faults = 0
  /\ businesses_found = 0
  /\ businesses_without_websites = 0
  /\ new_businesses_added = 0
  /\ lastSave = NoSave
  /\ \E e \in EntryPoints :
       /\ variant = e.variant /\ mode = e.mode
       /\ locations_arg = e.locations /\ categories_arg = e.categories
  /\ collaborator = "any" /\ view = None
  /\ save_business_attr = "original" /\ temp_businesses = << >>
  /\ writers = << >>
  /\ scrape_modes = SCRAPE_MODES /\ started = << >>
  /\ pc = "init_browser" /\ exc = "none"
  /\ browser = "none" /\ context = "none" /\ page = "none" /\ db_conn = "none"
  /\ request_count = 0 /\ scrape_run = None
  /\ li = 1 /\ ci = 1 /\ page_count = 0 /\ nlinks = 0 /\ i = 0
  /\ current = None /\ all_businesses = << >>
  /\ ev = "none"
  /\ queries = << >> /\ extracted = 0 /\ handed = 0 /\ terminal_updates = 0
  /\ requests = 0 /\ breaks = 0 /\ waited = FALSE

\* one more fault is injected
Fault == faults < MaxFaults /\ faults' = faults + 1

\* the locals of a search are gone when it returns
SearchReturns ==
  /\ pc' = "pair_end"
  /\ page_count' = 0 /\ nlinks' = 0 /\ i' = 0 /\ current' = None

\* the locals of run_scrape's loops are gone when the try is left
LoopLeft ==
  /\ li' = 1 /\ ci' = 1
  /\ page_count' = 0 /\ nlinks' = 0 /\ i' = 0 /\ current' = None
  /\ all_businesses' = << >>

\* init_browser: launch, new_context, new_page; a call that raises leaves
\* run_scrape at once (it is outside the try): k handles were assigned
InitBrowser ==
  /\ pc = "init_browser"
  /\ \/ /\ browser' = "open" /\ context' = "open" /\ page' = "open"
        /\ pc' = "init_database" /\ ev' = "browser_started"
        /\ UNCHANGED << exc, faults >>
     \/ /\ Fault
        /\ \E k \in 0..2 :
             /\ browser' = IF k >= 1 THEN "open" ELSE "none"
             /\ context' = IF k >= 2 THEN "open" ELSE "none"
        /\ page' = "none"
        /\ pc' = "raised" /\ exc' = "browser" /\ ev' = "init_failed"
  /\ UNCHANGED << paceVars, dbVars, db, businesses_found, config, db_conn,
                  request_count, scrape_run, loopVars, histVars >>

\* init_database: psycopg2.connect
InitDatabase ==
  /\ pc = "init_database"
  /\ \/ /\ db_conn' = "open" /\ pc' = "create_run" /\ ev' = "db_connected"
        /\ UNCHANGED << exc, faults >>
     \/ /\ Fault
        /\ db_conn' = "none"
        /\ pc' = "raised" /\ exc' = "db" /\ ev' = "init_failed"
  /\ UNCHANGED << paceVars, dbVars, db, businesses_found, config,
                  browser, context, page, request_count, scrape_run, loopVars,
                  histVars >>

\* run_id = self.create_scrape_run(), outside the try as well
CreateRun ==
  /\ pc = "create_run"
  /\ \/ /\ scrape_run' = NewRun
        /\ pc' = IF locations # << >> /\ categories # << >> THEN "search" ELSE "finalize"
        /\ ev' = "run_created"
        /\ UNCHANGED << exc, faults, db >>
     \/ /\ Fault
        /\ db' \in {"aborted", "lost"}
        /\ pc' = "raised" /\ exc' = "db" /\ ev' = "init_failed"
        /\ UNCHANGED scrape_run
  /\ UNCHANGED << paceVars, dbVars, businesses_found, config, handles, request_count,
                  loopVars, histVars >>

\* the except branches of search_businesses / search_businesses_and_save
\* (PlaywrightTimeout, Exception): log; v1 and v2 return [], gb returns with
\* what was saved left in place
QueryExcept_Propagates ==
  /\ pc' = "handler"
  /\ page_count' = 0 /\ nlinks' = 0 /\ i' = 0 /\ current' = None
  /\ all_businesses' = << >>
  /\ exc' = "browser"
  /\ ev' = "query_failed"

QueryExcept ==
  /\ SearchReturns
  /\ all_businesses' = << >>
  /\ exc' = exc
  /\ ev' = "query_failed"

\* except: logger.warning("No results found"); return / return []
NoResults_Propagates ==
  /\ pc' = "handler"
  /\ page_count' = 0 /\ nlinks' = 0 /\ i' = 0 /\ current' = None
  /\ all_businesses' = << >>
  /\ exc' = "browser"
  /\ ev' = "no_results"

NoResults ==
  /\ SearchReturns
  /\ all_businesses' = << >>
  /\ exc' = exc
  /\ ev' = "no_results"

\* the head of search_businesses / search_businesses_and_save:
\* check_session_break, page.goto, polite_delay, wait_for_selector
Search ==
  /\ pc = "search"
  /\ queries' = Append(queries, <<li, ci>>)
  /\ RecordRequest
  /\ \/ \* page.goto raises: polite_delay is not reached
        /\ Fault
        /\ QueryExcept
        /\ waited' = FALSE
     \/ /\ NoResults
        /\ waited' = TRUE
        /\ UNCHANGED faults
     \/ /\ pc' = "page" /\ all_businesses' = << >> /\ ev' = "results"
        /\ page_count' = 0 /\ nlinks' = 0 /\ i' = 0 /\ current' = None
        /\ waited' = TRUE
        /\ UNCHANGED << exc, faults >>
  /\ UNCHANGED << dbVars, db, businesses_found, config, handles, scrape_run,
                  li, ci, extracted, handed, terminal_updates >>

\* the numbers of listing elements a result page may show
ListingCounts ==
  CASE collaborator = "scripted" -> {Len(ScriptedListings)}
    [] collaborator = "crowded" -> {PerPageCap + 1}
    [] OTHER -> 0..MaxListings

\* the listing elements of the page are collected (query_selector_all)
Page ==
  /\ pc = "page"
  /\ \E n \in ListingCounts : nlinks' = n
  /\ i' = 0
  /\ pc' = "listing" /\ ev' = "page"
  /\ UNCHANGED << paceVars, dbVars, db, faults, businesses_found, config, exc, handles,
                  request_count, scrape_run, li, ci, page_count, current,
                  all_businesses, histVars >>

\* the range of the for loop over the listings
ListingRange == IF variant = "v1" THEN nlinks ELSE PageListings(nlinks)

\* where the navigator goes when the for loop over the listings is over:
\* gb and v1 count the page and look for a next one, v2 has one page only and
\* returns all_businesses
EndOfPage ==
  IF variant = "v2"
    THEN /\ SearchReturns
         /\ ev' = "last_page"
    ELSE /\ page_count' = page_count + 1
         /\ pc' = "page_end" /\ nlinks' = 0 /\ i' = 0 /\ current' = None
         /\ ev' = "page_done"

\* the listing yields no record.
\* v2, gb: extract_business_details returned None: `if business:` is passed
\*         over and go_back() is next;
\* v1: `if business['name']:` is false: the next element is next
NoRecord_SkipsGoBack ==
  i' = i + 1 /\ pc' = "listing"

NoRecord ==
  IF variant = "v1"
    THEN i' = i + 1 /\ pc' = "listing"
    ELSE i' = i /\ pc' = "back"

\* one iteration of the for loop, up to the extraction.
\* v2, gb: re-query the elements, read the name, click, extract_business_details;
\* v1: read the fields of the element (extract_businesses_from_page)
Listing ==
  /\ pc = "listing"
  /\ \/ \* the range is exhausted
        /\ i >= ListingRange
        /\ EndOfPage
        /\ UNCHANGED << all_businesses, extracted, faults >>
     \/ \* v2, gb: the re-queried collection has no element i: break
        /\ variant # "v1" /\ i < ListingRange
        /\ EndOfPage
        /\ UNCHANGED << all_businesses, extracted, faults >>
     \/ \* a call raises: except: log, continue
        /\ i < ListingRange
        /\ Fault
        /\ i' = i + 1 /\ pc' = "listing" /\ ev' = "listing_skipped"
        /\ UNCHANGED << page_count, nlinks, current, all_businesses, extracted >>
     \/ \* v2, gb: the detail view never loads: extract_business_details
        \* returns None; v1: the element has no name: not appended
        /\ i < ListingRange
        /\ IF variant = "v1" THEN MayLackName ELSE MayNotLoad
        /\ NoRecord
        /\ ev' = "no_record"
        /\ UNCHANGED << page_count, nlinks, current, all_businesses, extracted, faults >>
     \/ \* a record is extracted
        /\ i < ListingRange
        /\ collaborator # "any" \/ extracted < MaxExtracted
        /\ extracted' = extracted + 1
        /\ \E r \in Extractable :
             IF variant = "v1"
               THEN /\ all_businesses' = Append(all_businesses, r)
                    /\ current' = current
                    /\ i' = i + 1 /\ pc' = "listing"
               ELSE /\ current' = Some(r)
                    /\ all_businesses' = all_businesses
                    /\ i' = i /\ pc' = "save"
        /\ ev' = "extracted"
        /\ UNCHANGED << page_count, nlinks, faults >>
  /\ UNCHANGED << paceVars, dbVars, db, businesses_found, config, exc, handles,
                  request_count, scrape_run, li, ci, queries, handed,
                  terminal_updates >>

\* gb: self.save_business(business, location, category);
\*     self.businesses_found += 1
\*     (an exception leaving save_business is caught by the listing's except)
SaveNow ==
  /\ pc = "save" /\ variant = "gb" /\ save_business_attr = "original"
  /\ save_business(current[1], locations[li], categories[ci])
  /\ handed' = handed + 1
  /\ current' = None
  /\ IF lastSave'.result = "raised"
       THEN /\ businesses_found' = businesses_found
            /\ i' = i + 1 /\ pc' = "listing" /\ ev' = "save_raised"
       ELSE /\ businesses_found' = businesses_found + 1
            /\ i' = i /\ pc' = "back" /\ ev' = "saved"
  /\ UNCHANGED << paceVars, config, exc, handles, request_count, scrape_run, li, ci,
                  page_count, nlinks, all_businesses, queries, extracted,
                  terminal_updates >>

\* v2: all_businesses.append(business)
Buffer ==
  /\ pc = "save" /\ variant = "v2"
  /\ all_businesses' = Append(all_businesses, current[1])
  /\ current' = None
  /\ pc' = "back" /\ ev' = "buffered"
  /\ UNCHANGED << paceVars, dbVars, db, faults, businesses_found, config, exc, handles,
                  request_count, scrape_run, li, ci, page_count, nlinks, i,
                  histVars >>

\* await self.page.go_back(); when it raises: except: log, continue
GoBack_EndsQuery ==
  /\ pc = "back"
  /\ \/ /\ ev' = "back" /\ UNCHANGED faults
        /\ i' = i + 1 /\ pc' = "listing"
        /\ UNCHANGED << page_count, nlinks, current >>
     \/ /\ Fault
        /\ ev' = "back_failed"
        /\ SearchReturns
  /\ UNCHANGED << paceVars, dbVars, db, businesses_found, config, exc, handles,
                  request_count, scrape_run, li, ci, all_businesses, histVars >>

GoBack ==
  /\ pc = "back"
  /\ \/ /\ ev' = "back" /\ UNCHANGED faults
     \/ /\ Fault
        /\ ev' = "back_failed"
  /\ i' = i + 1 /\ pc' = "listing"
  /\ UNCHANGED << paceVars, dbVars, db, businesses_found, config, exc, handles,
                  request_count, scrape_run, li, ci, page_count, nlinks, current,
                  all_businesses, histVars >>

\* gb: if page_count < max_pages and await self.has_next_page():
\*         click_next_page, polite_delay   else: break
\* v1: while page_count < max_pages and await self.has_next_page(): ...
\* click_next_page: check_session_break, page.click, wait_for_load_state
PageEnd ==
  /\ pc = "page_end"
  /\ \/ \* the cap is not reached and there is a next page
        /\ page_count < max_pages
        /\ collaborator = "crowded" \/ page_count < MaxResultPages
        /\ RecordRequest
        /\ \/ /\ pc' = "page" /\ ev' = "next_page"
              /\ waited' = TRUE
              /\ UNCHANGED << all_businesses, exc, faults, page_count, nlinks, i, current >>
           \/ \* page.click raises: polite_delay is not reached
              /\ Fault
              /\ QueryExcept
              /\ waited' = FALSE
     \/ \* the cap is reached or there is no next page
        /\ SearchReturns /\ ev' = "last_page"
        /\ UNCHANGED << all_businesses, exc, faults, request_count, paceVars >>
  /\ UNCHANGED << dbVars, db, businesses_found, config, handles, scrape_run,
                  li, ci, histVars >>

\* v1, v2: for business in businesses: save_business(...); businesses_found += 1
\* (an exception leaving save_business reaches the except of run_scrape)
SaveBuffered_LastFirst ==
  /\ pc = "pair_end" /\ all_businesses # << >>
  /\ save_business(all_businesses[Len(all_businesses)], locations[li], categories[ci])
  /\ handed' = handed + 1
  /\ IF lastSave'.result = "raised"
       THEN /\ businesses_found' = businesses_found
            /\ pc' = "handler" /\ exc' = "db" /\ ev' = "save_raised"
            /\ LoopLeft
       ELSE /\ businesses_found' = businesses_found + 1
            /\ pc' = "pair_end" /\ exc' = exc /\ ev' = "saved"
            /\ all_businesses' = SubSeq(all_businesses, 1, Len(all_businesses) - 1)
            /\ UNCHANGED << li, ci, page_count, nlinks, i, current >>
  /\ UNCHANGED << paceVars, config, handles, request_count, scrape_run, queries,
                  extracted, terminal_updates >>

SaveBuffered ==
  /\ pc = "pair_end" /\ all_businesses # << >>
  /\ save_business(Head(all_businesses), locations[li], categories[ci])
  /\ handed' = handed + 1
  /\ IF lastSave'.result = "raised"
       THEN /\ businesses_found' = businesses_found
            /\ pc' = "handler" /\ exc' = "db" /\ ev' = "save_raised"
            /\ LoopLeft
       ELSE /\ businesses_found' = businesses_found + 1
            /\ pc' = "pair_end" /\ exc' = exc /\ ev' = "saved"
            /\ all_businesses' = Tail(all_businesses)
            /\ UNCHANGED << li, ci, page_count, nlinks, i, current >>
  /\ UNCHANGED << paceVars, config, handles, request_count, scrape_run, queries,
                  extracted, terminal_updates >>

\* await self.polite_delay() after the pair; then the for loops go to the
\* next (location, category), or end
PairDelay ==
  /\ pc = "pair_end" /\ all_businesses = << >>
  /\ IF ci < Len(categories)
       THEN /\ li' = li /\ ci' = ci + 1 /\ pc' = "search"
            /\ UNCHANGED << page_count, nlinks, i, current, all_businesses >>
       ELSE IF li < Len(locations)
              THEN /\ li' = li + 1 /\ ci' = 1 /\ pc' = "search"
                   /\ UNCHANGED << page_count, nlinks, i, current, all_businesses >>
              ELSE /\ pc' = "finalize" /\ LoopLeft
  /\ ev' = "pair_done"
  /\ waited' = TRUE
  /\ UNCHANGED << dbVars, db, faults, businesses_found, config, exc, handles,
                  request_count, scrape_run, histVars, requests, breaks >>

\* self.update_scrape_run(run_id, 'completed'), the last statement of the try
Finalize ==
  /\ pc = "finalize"
  /\ \/ /\ UpdateRunCommitted("completed", None)
        /\ pc' = "cleanup" /\ exc' = exc /\ ev' = "finalized"
     \/ /\ UpdateRunRaises
        /\ pc' = "handler" /\ exc' = "db" /\ ev' = "finalize_failed"
  /\ UNCHANGED << paceVars, dbVars, businesses_found, config, handles, request_count,
                  loopVars, queries, extracted, handed >>

\* except Exception as e: update_scrape_run(run_id, 'failed', str(e)); raise    (v1, v2)
\*                        update_scrape_run(run_id, 'partial', "Partial ...")   (gb)
Handler ==
  /\ pc = "handler"
  /\ \/ /\ UpdateRunCommitted(FailStatus, ErrorLog(exc))
        /\ exc' = IF variant = "gb" THEN "none" ELSE exc
        /\ ev' = "handled"
     \/ /\ UpdateRunRaises
        /\ exc' = "db" /\ ev' = "handler_failed"
  /\ pc' = "cleanup"
  /\ UNCHANGED << paceVars, dbVars, businesses_found, config, handles, request_count,
                  loopVars, queries, extracted, handed >>

\* a process-level interruption (KeyboardInterrupt, task cancellation) while
\* the run sleeps between two listings or two pairs: no except Exception
\* catches it, the finally runs
Interrupt ==
  /\ pc \in {"listing", "pair_end"}
  /\ Fault
  /\ exc' = "interrupt" /\ pc' = "cleanup" /\ ev' = "interrupted"
  /\ LoopLeft
  /\ UNCHANGED << paceVars, dbVars, db, businesses_found, config, handles,
                  request_count, scrape_run, histVars >>

\* what a handle is after its close() returned
Closed(h) == IF h = "open" THEN "closed" ELSE h

\* finally: await self.cleanup(): page.close, context.close, browser.close,
\* db_conn.close, in this order; k is the number of closes that return
\* (k = 4: all of them; k < 4: the next close raises and ends cleanup)
Cleanup ==
  /\ pc = "cleanup"
  /\ \E k \in 0..4 :
       /\ IF k < 4 THEN Fault ELSE faults' = faults
       /\ page' = IF k >= 1 THEN Closed(page) ELSE page
       /\ context' = IF k >= 2 THEN Closed(context) ELSE context
       /\ browser' = IF k >= 3 THEN Closed(browser) ELSE browser
       /\ db_conn' = IF k >= 4 THEN Closed(db_conn) ELSE db_conn
       /\ exc' = IF k < 4 THEN "browser" ELSE exc
       /\ ev' = IF k < 4 THEN "cleanup_failed" ELSE "cleaned"
  /\ pc' = IF exc' = "none" THEN "done" ELSE "raised"
  /\ UNCHANGED << paceVars, dbVars, db, businesses_found, config, request_count,
                  scrape_run, loopVars, histVars >>

\* the entry point after run_scrape returned: scraper.print_summary();
\* when run_scrape raised, the exception leaves the entry point before it
PrintSummary ==
  /\ pc = "done" /\ ev # "summary"
  /\ ev' = "summary"
  /\ UNCHANGED << dbVars, db, faults, businesses_found, config, pc, exc, handles,
                  request_count, scrape_run, loopVars, histVars, paceVars >>

Next ==
  \/ InitBrowser \/ InitDatabase \/ CreateRun
  \/ Search \/ Page \/ Listing \/ SaveNow \/ Buffer \/ GoBack \/ PageEnd
  \/ SaveBuffered \/ PairDelay
  \/ Finalize \/ Handler \/ Interrupt \/ Cleanup
  \/ PrintSummary

Spec == Init /\ [][Next]_vars

\* The run under its scheduling: one task, whose next step is taken whenever
\* there is one (every call returns or raises).
SpecFair == Spec /\ WF_vars(Next)

(***************************************************************************)
(* SpecDebug: the runs of debug_scrape: any variant in mode debug, one     *)
(* (location, category) pair, up to two result pages, any browser.         *)
(***************************************************************************)
InitDebug ==
  /\ Init
  /\ mode = "debug" /\ locations_arg = None /\ categories_arg = None

SpecDebug == InitDebug /\ [][Next]_vars

(***************************************************************************)
(* SpecE2E: a run in mode full over the two locations and two categories   *)
(* with the scripted browser: every query has one result page of three     *)
(* listings, every listing yields its record, and no call raises.          *)
(***************************************************************************)
InitE2E ==
  /\ businesses = {}
  /\ db = "ok"
  /\ now = 0
  /\ faults = 0
  /\ businesses_found = 0
  /\ businesses_without_websites = 0
  /\ new_businesses_added = 0
  /\ lastSave = NoSave
  /\ variant \in {"v1", "v2", "gb"} /\ mode = "full"
  /\ locations_arg = None /\ categories_arg = None
  /\ collaborator = "scripted" /\ view = None
  /\ save_business_attr = "original" /\ temp_businesses = << >>
  /\ writers = << >>
  /\ scrape_modes = SCRAPE_MODES /\ started = << >>
  /\ pc = "init_browser" /\ exc = "none"
  /\ browser = "none" /\ context = "none" /\ page = "none" /\ db_conn = "none"
  /\ request_count = 0 /\ scrape_run = None
  /\ li = 1 /\ ci = 1 /\ page_count = 0 /\ nlinks = 0 /\ i = 0
  /\ current = None /\ all_businesses = << >>
  /\ ev = "none"
  /\ queries = << >> /\ extracted = 0 /\ handed = 0 /\ terminal_updates = 0
  /\ requests = 0 /\ breaks = 0 /\ waited = FALSE

\* what the scripted browser and a storage that works allow a step to be
ScriptedStep ==
  /\ faults' = faults
  /\ ev' \notin {"no_results", "no_record", "next_page"}
  /\ (pc = "listing" /\ ev' \in {"page_done", "last_page"}) => i >= nlinks

NextE2E ==
  /\ \/ InitBrowser \/ InitDatabase \/ CreateRun
     \/ Search \/ Page \/ Listing \/ SaveNow \/ Buffer \/ GoBack \/ PageEnd
     \/ SaveBuffered \/ PairDelay
     \/ Finalize \/ Cleanup
  /\ ScriptedStep

SpecE2E == InitE2E /\ [][NextE2E]_vars

(***************************************************************************)
(* SpecCrowded: a run of any variant in any mode with the crowded browser: *)
(* every result page shows PerPageCap + 1 listings and a next-page link,   *)
(* every detail view loads, and no call raises.                            *)
(***************************************************************************)
InitCrowded ==
  /\ businesses = {}
  /\ db = "ok"
  /\ now = 0
  /\ faults = 0
  /\ businesses_found = 0
  /\ businesses_without_websites = 0
  /\ new_businesses_added = 0
  /\ lastSave = NoSave
  /\ variant \in {"v1", "v2", "gb"} /\ mode \in {"test", "full", "debug"}
  /\ locations_arg = None /\ categories_arg = None
  /\ collaborator = "crowded" /\ view = None
  /\ save_business_attr = "original" /\ temp_businesses = << >>
  /\ writers = << >>
  /\ scrape_modes = SCRAPE_MODES /\ started = << >>
  /\ pc = "init_browser" /\ exc = "none"
  /\ browser = "none" /\ context = "none" /\ page = "none" /\ db_conn = "none"
  /\ request_count = 0 /\ scrape_run = None
  /\ li = 1 /\ ci = 1 /\ page_count = 0 /\ nlinks = 0 /\ i = 0
  /\ current = None /\ all_businesses = << >>
  /\ ev = "none"
  /\ queries = << >> /\ extracted = 0 /\ handed = 0 /\ terminal_updates = 0
  /\ requests = 0 /\ breaks = 0 /\ waited = FALSE

\* what the crowded browser and a storage that works allow a step to be:
\* the results marker appears, the re-queried collection is never shorter
\* than the first one, has_next_page() is always true
CrowdedStep ==
  /\ faults' = faults
  /\ ev' # "no_results"
  /\ (pc = "listing" /\ ev' \in {"page_done", "last_page"}) => i >= ListingRange
  /\ (pc = "page_end" /\ ev' = "last_page") => page_count >= max_pages

NextCrowded ==
  /\ \/ InitBrowser \/ InitDatabase \/ CreateRun
     \/ Search \/ Page \/ Listing \/ SaveNow \/ Buffer \/ GoBack \/ PageEnd
     \/ SaveBuffered \/ PairDelay
     \/ Finalize \/ Cleanup
  /\ CrowdedStep

SpecCrowded == InitCrowded /\ [][NextCrowded]_vars

(***************************************************************************)
(* SpecModes: one process that runs the entry points of one scraper module *)
(* (test_scrape, full_scrape, debug_scrape), one after the other, against  *)
(* the scripted browser.  Each entry point constructs a scraper and runs   *)
(* run_scrape() and print_summary(); the table SCRAPE_MODES and the store  *)
(* outlive the scraper.                                                    *)
(***************************************************************************)
MaxEntryPoints == 2

\* __init__(mode): self.mode_config = SCRAPE_MODES.get(mode, ...) keeps the
\* entry of the table itself, no copy; handles None, counters 0.  The loop
\* position and the histories of the run start afresh with the scraper.
Constructed(m) ==
  /\ mode' = m
  /\ browser' = "none" /\ context' = "none" /\ page' = "none" /\ db_conn' = "none"
  /\ businesses_found' = 0
  /\ businesses_without_websites' = 0
  /\ new_businesses_added' = 0
  /\ request_count' = 0
  /\ pc' = "init_browser" /\ exc' = "none" /\ ev' = "none"
  /\ scrape_run' = None
  /\ li' = 1 /\ ci' = 1 /\ page_count' = 0 /\ nlinks' = 0 /\ i' = 0
  /\ current' = None /\ all_businesses' = << >>
  /\ queries' = << >> /\ extracted' = 0 /\ handed' = 0 /\ terminal_updates' = 0
  /\ requests' = 0 /\ breaks' = 0 /\ waited' = FALSE

\* scraper.mode_config['categories'] = n: mode_config is the entry of
\* SCRAPE_MODES, so the assignment writes the table
SetCategories(table, m, n) == [table EXCEPT ![m].categories = Some(n)]

\* no entry point is running: none was called yet, or the last one returned
\* from print_summary()
EntryPointReturned == pc = "process" \/ (pc = "done" /\ ev = "summary")

\* the part every entry point shares: the scraper constructed in mode m, the
\* table as the entry point leaves it before run_scrape(), the history
EntryPoint(name, m, table) ==
  /\ EntryPointReturned
  /\ Len(started) < MaxEntryPoints
  /\ Constructed(m)
  /\ scrape_modes' = table
  /\ started' = Append(started, [entry |-> name, mode |-> m,
                                 mode_config |-> scrape_modes[m]])
  /\ UNCHANGED << businesses, now, lastSave, db, faults, variant, locations_arg,
                  categories_arg, collaborator, view, save_business_attr,
                  temp_businesses, writers >>

\* v1: GoogleBusinessScraper(mode='test'); run_scrape(); print_summary()
\* v2, gb: the same with scraper.mode_config['categories'] = 1 before run_scrape()
test_scrape ==
  EntryPoint("test_scrape", "test",
             IF variant = "v1" THEN scrape_modes
                               ELSE SetCategories(scrape_modes, "test", 1))

\* v1 only
full_scrape ==
  /\ variant = "v1"
  /\ EntryPoint("full_scrape", "full", scrape_modes)

debug_scrape ==
  EntryPoint("debug_scrape", "debug", scrape_modes)

InitModes ==
  /\ businesses = {}
  /\ db = "ok"
  /\ now = 0
  /\ faults = 0
  /\ businesses_found = 0
  /\ businesses_without_websites = 0
  /\ new_businesses_added = 0
  /\ lastSave = NoSave
  /\ variant \in {"v1", "v2", "gb"} /\ mode = "test"
  /\ locations_arg = None /\ categories_arg = None
  /\ collaborator = "scripted" /\ view = None
  /\ save_business_attr = "original" /\ temp_businesses = << >>
  /\ writers = << >>
  /\ scrape_modes = SCRAPE_MODES /\ started = << >>
  /\ pc = "process" /\ exc = "none"
  /\ browser = "none" /\ context = "none" /\ page = "none" /\ db_conn = "none"
  /\ request_count = 0 /\ scrape_run = None
  /\ li = 1 /\ ci = 1 /\ page_count = 0 /\ nlinks = 0 /\ i = 0
  /\ current = None /\ all_businesses = << >>
  /\ ev = "none"
  /\ queries = << >> /\ extracted = 0 /\ handed = 0 /\ terminal_updates = 0
  /\ requests = 0 /\ breaks = 0 /\ waited = FALSE

NextModes ==
  /\ \/ test_scrape \/ full_scrape \/ debug_scrape
     \/ InitBrowser \/ InitDatabase \/ CreateRun
     \/ Search \/ Page \/ Listing \/ SaveNow \/ Buffer \/ GoBack \/ PageEnd
     \/ SaveBuffered \/ PairDelay
     \/ Finalize \/ Cleanup \/ PrintSummary
  /\ ScriptedStep

SpecModes == InitModes /\ [][NextModes]_vars

(***************************************************************************)
(* SpecCollect: search_businesses(location, category) of gb, the adapter   *)
(* that collects what search_businesses_and_save would save, called on a   *)
(* scraper whose browser and database are initialised.                     *)
(***************************************************************************)
\* temp_businesses = []; self._original_save = self.save_business;
\* self.save_business = collect_business; try: search_businesses_and_save
search_businesses ==
  /\ pc = "adapter"
  /\ temp_businesses' = << >>
  /\ save_business_attr' = "collect_business"
  /\ pc' = "search" /\ ev' = "adapter_called"
  /\ UNCHANGED << dbVars, db, faults, businesses_found, variant, mode, locations_arg,
                  categories_arg, collaborator, view, writers, scrape_modes, started, exc,
                  handles, request_count, scrape_run, loopVars, histVars, paceVars >>

\* self.save_business(business, location, category) while the adapter runs:
\* collect_business appends the record; self.businesses_found += 1 follows
\* in search_businesses_and_save
collect_business ==
  /\ pc = "save" /\ variant = "gb" /\ save_business_attr = "collect_business"
  /\ temp_businesses' = Append(temp_businesses, current[1])
  /\ businesses_found' = businesses_found + 1
  /\ handed' = handed + 1
  /\ current' = None
  /\ pc' = "back" /\ ev' = "collected"
  /\ UNCHANGED << paceVars, dbVars, db, faults, variant, mode, locations_arg,
                  categories_arg, collaborator, view, writers, save_business_attr,
                  scrape_modes, started, exc, handles, request_count, scrape_run,
                  li, ci, page_count, nlinks, i, all_businesses, queries, extracted,
                  terminal_updates >>

\* search_businesses_and_save returned; finally: self.save_business =
\* self._original_save; del self._temp_businesses; return temp_businesses
AdapterReturns ==
  /\ pc = "pair_end"
  /\ save_business_attr' = "original"
  /\ pc' = "returned" /\ ev' = "adapter_returned"
  /\ UNCHANGED << dbVars, db, faults, businesses_found, variant, mode, locations_arg,
                  categories_arg, collaborator, view, writers, temp_businesses, scrape_modes,
                  started, exc, handles, request_count, scrape_run, loopVars,
                  histVars, paceVars >>

\* an exception that search_businesses_and_save does not catch
\* (KeyboardInterrupt, CancelledError) passes through the finally
AdapterInterrupted ==
  /\ pc = "listing"
  /\ Fault
  /\ save_business_attr' = "original"
  /\ exc' = "interrupt" /\ pc' = "raised" /\ ev' = "adapter_interrupted"
  /\ page_count' = 0 /\ nlinks' = 0 /\ i' = 0 /\ current' = None
  /\ UNCHANGED << dbVars, db, businesses_found, variant, mode, locations_arg,
                  categories_arg, collaborator, view, writers, temp_businesses, scrape_modes,
                  started, handles, request_count, scrape_run, li, ci,
                  all_businesses, histVars, paceVars >>

InitCollect ==
  /\ businesses = {}
  /\ db = "ok"
  /\ now = 0
  /\ faults = 0
  /\ businesses_found = 0
  /\ businesses_without_websites = 0
  /\ new_businesses_added = 0
  /\ lastSave = NoSave
  /\ variant = "gb" /\ mode \in {"test", "full", "debug"}
  /\ locations_arg = None /\ categories_arg = None
  /\ collaborator = "any" /\ view = None
  /\ save_business_attr = "original" /\ temp_businesses = << >>
  /\ writers = << >>
  /\ scrape_modes = SCRAPE_MODES /\ started = << >>
  /\ pc = "adapter" /\ exc = "none"
  /\ browser = "open" /\ context = "open" /\ page = "open" /\ db_conn = "open"
  /\ request_count = 0 /\ scrape_run = None
  /\ li = 1 /\ ci = 1 /\ page_count = 0 /\ nlinks = 0 /\ i = 0
  /\ current = None /\ all_businesses = << >>
  /\ ev = "none"
  /\ queries = << >> /\ extracted = 0 /\ handed = 0 /\ terminal_updates = 0
  /\ requests = 0 /\ breaks = 0 /\ waited = FALSE

NextCollect ==
  \/ search_businesses \/ collect_business \/ AdapterReturns \/ AdapterInterrupted
  \/ Search \/ Page \/ Listing \/ GoBack \/ PageEnd

SpecCollect == InitCollect /\ [][NextCollect]_vars

(***************************************************************************)
(* Claims about the store.                                                 *)
(***************************************************************************)
RowsAt(name, city) == { r \in businesses : r.name = name /\ r.city = city }

\* C1: the store holds at most one row per identity key: no two rows carry the
\* same non-empty gbp_url, and no row without a gbp_url shares its
\* (name, city) with another row, whichever of the two was stored first.
C1_OneRowPerIdentity ==
  \A r1, r2 \in businesses :
    r1 # r2 =>
      /\ ~(r1.gbp_url # None /\ r1.gbp_url = r2.gbp_url)
      /\ ~(r1.name = r2.name /\ r1.city = r2.city
             /\ (r1.gbp_url = None \/ r2.gbp_url = None))

\* C2: when a record with a non-empty gbp_url is upserted and a row of that
\* gbp_url is already stored (a second sighting, any upserts in between), then
\* after the upsert exactly one row carries the gbp_url, its last_scraped is
\* the time of this upsert, and its name, phone, address, has_website,
\* website_url and rating are those of this record.
C2_SecondSightingOverwrites ==
  (lastSave.result = "updated" /\ lastSave.business.gbp_url # None) =>
    LET b == lastSave.business
        S == { r \in businesses : r.gbp_url = b.gbp_url }
    IN  /\ Cardinality(S) = 1
        /\ \A r \in S :
             /\ r.last_scraped = Some(now)
             /\ r.name = b.name
             /\ r.phone = b.phone
             /\ r.address = b.address
             /\ r.has_website = b.has_website
             /\ r.website_url = b.website_url
             /\ r.google_rating = b.rating

\* C2 witness: a record with a gbp_url was upserted a second time, after at
\* least one upsert in between, and changed the stored name and phone.
C2_Witness ==
  /\ lastSave.result = "updated"
  /\ lastSave.business.gbp_url # None
  /\ now >= 3
  /\ lastSave.business.phone = None
  /\ \E r \in businesses :
       r.gbp_url = lastSave.business.gbp_url /\ r.id = 1 /\ r.name = "B"

\* C3: after a committed upsert of a record, the rows of its (name, city) are
\* one row whenever one of them has no gbp_url: a record without gbp_url and a
\* record of the same name and city resolve to one row in either order.
C3_FallbackIdentity ==
  lastSave.result \in {"inserted", "updated"} =>
    LET S == RowsAt(lastSave.business.name, City(lastSave.location))
    IN  (\E r \in S : r.gbp_url = None) => Cardinality(S) = 1

(***************************************************************************)
(* Claims about a run.                                                     *)
(***************************************************************************)
\* the run has exited: run_scrape returned or raised
Exited == pc \in {"done", "raised"}

\* the (location, category) pairs of the run, in the order of the for loops
AllPairs ==
  [ k \in 1..(Len(locations) * Len(categories)) |->
      << ((k - 1) \div Len(categories)) + 1, ((k - 1) % Len(categories)) + 1 >> ]

\* the pair being processed is not the last one
PairsRemain == ~(li = Len(locations) /\ ci = Len(categories))

\* C4: no exception leaves save_business, whatever step of it fails, and no
\* failure of save_business takes the run out of its loops.
C4_SaveFailsClosed ==
  /\ lastSave.result # "raised"
  /\ ev # "save_raised"

\* C5: at every point of a query, and when the run has exited, each record
\* extracted so far has been passed to save_business.
C5_ExtractedAreHanded ==
  (pc \in {"listing", "page", "page_end"} \/ Exited) => handed = extracted

\* C6: a step in which the except branch of a query catches a timeout or an
\* exception ends that pair only: the rows stored stay, nothing propagates,
\* the run ledger is untouched and the loops stay on the pair; the step after
\* it, unless the process is interrupted, starts the next pair or, after the
\* last pair, the finalization; and the finalization is reached only when
\* every pair of the run was searched, in order.
C6_QueryFailureEndsPairOnly ==
  /\ [][ ev' = "query_failed" =>
           /\ pc \in {"search", "page_end"}
           /\ businesses' = businesses
           /\ pc' = "pair_end" /\ exc' = "none"
           /\ li' = li /\ ci' = ci
           /\ scrape_run' = scrape_run ]_vars
  /\ [][ (ev = "query_failed" /\ ev' # "interrupted") =>
           IF PairsRemain
             THEN pc' = "search" /\ << li', ci' >> = AllPairs[Len(queries) + 1]
             ELSE pc' = "finalize" ]_vars
  /\ [](pc = "finalize" => queries = AllPairs)

\* C6 witness: in gb a query failed after a row of this pair was stored, and
\* pairs remain.
C6_Witness ==
  /\ ev = "query_failed" /\ pc = "pair_end"
  /\ variant = "gb" /\ PairsRemain
  /\ lastSave.result = "inserted"
  /\ lastSave.location = locations[li]
  /\ lastSave.category = categories[ci]
  /\ businesses # {}

\* C7: a step in which the results marker does not appear ends the query with
\* zero records: no record is extracted, no save_business call is made, the
\* store and the run counters are unchanged, nothing propagates; the step
\* after it, unless the process is interrupted, starts the next pair or,
\* after the last pair, the finalization.
C7_NoResultsIsNotAnError ==
  /\ [][ ev' = "no_results" =>
           /\ pc = "search"
           /\ dbVars' = dbVars /\ businesses_found' = businesses_found
           /\ extracted' = extracted /\ handed' = handed
           /\ all_businesses' = << >>
           /\ pc' = "pair_end" /\ exc' = "none"
           /\ scrape_run' = scrape_run ]_vars
  /\ [][ (ev = "no_results" /\ ev' # "interrupted") =>
           IF PairsRemain
             THEN pc' = "search" /\ << li', ci' >> = AllPairs[Len(queries) + 1]
             ELSE pc' = "finalize" ]_vars

\* C7 witness: a query found no results after an earlier pair stored a row,
\* and pairs remain.
C7_Witness ==
  /\ ev = "no_results" /\ pc = "pair_end"
  /\ Len(queries) >= 2 /\ PairsRemain
  /\ businesses # {}

\* C8: a run that has exited after creating its scrape_runs row applied
\* exactly one update to it, and no run applies more than one.
C8_ExactlyOneTerminalUpdate ==
  /\ terminal_updates <= 1
  /\ (Exited /\ scrape_run # None) => terminal_updates = 1

\* C9: no run that has exited leaves its scrape_runs row in status 'running'.
C9_NoRunLeftRunning ==
  (Exited /\ scrape_run # None) => scrape_run[1].status # "running"

\* C10: when run_scrape has returned or raised, none of page, context,
\* browser and db_conn is still open.
C10_AllReleased ==
  Exited => \A h \in {page, context, browser, db_conn} : h # "open"

\* C11: when a close() of cleanup raised, every other handle was still closed:
\* at most the handle whose close() raised is left open.
C11_ReleasesIndependently ==
  ev = "cleanup_failed" =>
    Cardinality({ k \in 1..4 : handles[k] = "open" }) <= 1

(***************************************************************************)
(* Claims about pacing.                                                    *)
(***************************************************************************)
\* C12: every step that records a request and navigates (the search request
\* of a query, a next-page click) is taken after a pacing wait that followed
\* the previous navigation, the first search of the run included.
C12_PacedBeforeNavigation ==
  [][ requests' # requests => (waited \/ breaks' # breaks) ]_vars

\* C13: between calls the request counter is in 0..REQUESTS_PER_SESSION-1 and
\* is the number of recorded requests modulo REQUESTS_PER_SESSION, and the
\* number of session breaks taken is the number of recorded requests divided
\* by REQUESTS_PER_SESSION: every call adds one, every
\* REQUESTS_PER_SESSION-th call, and no other, takes a break and resets.
C13_BreakEveryNthRequest ==
  /\ request_count \in 0..(REQUESTS_PER_SESSION - 1)
  /\ request_count = requests % REQUESTS_PER_SESSION
  /\ breaks = requests \div REQUESTS_PER_SESSION

\* C13 witness: two session breaks were taken and three requests were
\* recorded since the second.
C13_Witness ==
  /\ pc = "pacing"
  /\ breaks = 2 /\ request_count = 3 /\ requests = 2 * REQUESTS_PER_SESSION + 3

(***************************************************************************)
(* Claims about the order of processing.                                   *)
(***************************************************************************)
\* the navigator is inside a query
InQuery == pc \in {"page", "listing", "save", "back", "page_end"}

\* C14: the queries issued are a prefix of the locations x categories cross
\* product (locations outer, categories inner); inside a query the page
\* number goes up by one at a time and the listing index goes up by one at a
\* time from 0 on each page; a record is handed to save_business at the
\* listing it was extracted from (gb) or from the head of a buffer that is
\* only appended to at its tail (v1, v2), so records are handed in the
\* order in which they were presented.
C14_FixedProcessingOrder ==
  /\ [](queries = SubSeq(AllPairs, 1, Len(queries)))
  /\ [][ (InQuery /\ pc' \in {"page", "listing", "save", "back", "page_end"}) =>
           \/ page_count' = page_count /\ i' \in {i, i + 1}
           \/ page_count' = page_count + 1 /\ i' = 0 ]_vars
  /\ [][ handed' = handed + 1 =>
           IF variant = "gb"
             THEN pc = "save" /\ lastSave'.business = current[1]
             ELSE /\ pc = "pair_end"
                  /\ lastSave'.business = Head(all_businesses)
                  /\ lastSave'.result # "raised" =>
                       all_businesses' = Tail(all_businesses) ]_vars
  /\ [][ Len(all_businesses') > Len(all_businesses) =>
           /\ Len(all_businesses') = Len(all_businesses) + 1
           /\ SubSeq(all_businesses', 1, Len(all_businesses)) = all_businesses ]_vars

\* C14 witness: v1 buffered two different records in a query after the first
\* pair, and handed the first of them while the second waits.
C14_Witness ==
  /\ variant = "v1" /\ pc = "pair_end" /\ Len(queries) >= 2
  /\ lastSave.result = "inserted"
  /\ lastSave.location = locations[li] /\ lastSave.category = categories[ci]
  /\ Len(all_businesses) = 1
  /\ lastSave.business # all_businesses[1]

(***************************************************************************)
(* Claims about the orchestrator.                                          *)
(***************************************************************************)
\* C15: a list passed to run_scrape is the list the run works on, whatever
\* the cap of the mode.
C15_ExplicitListWins ==
  /\ (locations_arg # None /\ locations_arg[1] # << >>) => locations = locations_arg[1]
  /\ (categories_arg # None /\ categories_arg[1] # << >>) => categories = categories_arg[1]

\* C16: a run over two locations and two categories with the scripted
\* browser (three listings per query, the same three businesses in every
\* query) ends with exactly 3 business rows, businesses_found = 12, and the
\* scrape_runs row in status 'completed' carrying that count.
C16_EndToEnd ==
  (collaborator = "scripted" /\ Exited) =>
    /\ pc = "done"
    /\ Len(queries) = 4
    /\ Cardinality(businesses) = 3
    /\ businesses_found = 12
    /\ scrape_run # None
    /\ scrape_run[1].status = "completed"
    /\ scrape_run[1].businesses_found = Some(12)

\* C16 witness: the scripted run of gb has returned, the four queries issued
\* and the twelve records saved.
C16_Witness ==
  /\ collaborator = "scripted" /\ variant = "gb" /\ pc = "done"
  /\ Len(queries) = 4 /\ handed = 12 /\ now = 12

\* C17: every run that created its scrape_runs row eventually prints the
\* summary report, whatever status the run ended with.
C17_SummaryEventuallyPrinted ==
  (scrape_run # None) ~> (ev = "summary")

(***************************************************************************)
(* Claims about the counters and the timestamps.                           *)
(***************************************************************************)
\* C18: a save_business call that commits adds 1 to businesses_found and adds
\* 1 to businesses_without_websites exactly when the record written has no
\* website; a call that fails changes neither counter.
C18_CountersFollowUpsert ==
  [][ now' # now =>
        IF lastSave'.result \in {"inserted", "updated"}
          THEN /\ businesses_found' = businesses_found + 1
               /\ businesses_without_websites' =
                    IF lastSave'.business.has_website
                      THEN businesses_without_websites
                      ELSE businesses_without_websites + 1
          ELSE /\ businesses_found' = businesses_found
               /\ businesses_without_websites' = businesses_without_websites ]_vars

\* C19: after a save_business call that committed, whether it inserted or
\* updated, the rows of the record's identity exist and their last_scraped is
\* the time of that call (on an insert, through the column's default); and
\* no step makes the last_scraped of a row smaller.
C19_LastScrapedAdvances ==
  /\ [](lastSave.result \in {"inserted", "updated"} =>
          LET S == Existing(businesses, lastSave.business, lastSave.location)
          IN  S # {} /\ \A r \in S : r.last_scraped = Some(now))
  /\ [][ \A r \in businesses : \A q \in businesses' :
           q.id = r.id =>
             /\ q.last_scraped # None
             /\ r.last_scraped # None => q.last_scraped[1] >= r.last_scraped[1] ]_vars

\* C19 witness: a record without gbp_url updated, at the third call or later,
\* the row that the first call inserted.
C19_Witness ==
  /\ lastSave.result = "updated" /\ lastSave.business.gbp_url = None
  /\ now >= 3
  /\ \E r \in businesses :
       /\ r.id = 1 /\ r.name = lastSave.business.name
       /\ r.city = City(lastSave.location)
       /\ r.last_scraped = Some(now)

\* C20: a run finalized after an exception has status 'partial' exactly when
\* it had stored at least one row, and 'failed' exactly when it had stored
\* none, in every variant.
C20_PartialIffPersisted ==
  (scrape_run # None /\ scrape_run[1].status \in {"partial", "failed"}) =>
    (scrape_run[1].status = "partial" <=> businesses # {})

(***************************************************************************)
(* Claims about the navigator.                                             *)
(***************************************************************************)
\* C21: on every result page at most PerPageCap (20) listings are opened, and
\* at most PerPageCap records per page are handed on: the listing index of a
\* page never passes the cap, and the records buffered by a query are at most
\* the cap times the pages begun.
C21_PerPageCap ==
  /\ i <= PerPageCap
  /\ Len(all_businesses) <= PerPageCap * (page_count + 1)

\* the pages of the current query processed when the navigator leaves it
PagesProcessed == IF pc = "page_end" THEN page_count ELSE page_count + 1

\* C22: when every result page has a next-page link, a query whose results
\* marker appeared ends only after max_pages pages were processed: the
\* navigator advances whenever fewer than max_pages pages are done, and the
\* number of pages processed is between 1 and max_pages.
C22_PaginatesToTheCap ==
  [][ (collaborator = "crowded" /\ InQuery /\ pc' = "pair_end") =>
        /\ PagesProcessed \in 1..max_pages
        /\ PagesProcessed = max_pages ]_vars

\* C23: a step in which the processing of listing i raises (reading the name,
\* the click, the extraction, gb's save, going back) skips that listing only:
\* the navigator stays in the loop of the same page at listing i + 1, with
\* the listing elements of the page, the page count, the buffered records and
\* the queries unchanged, and nothing propagates.
C23_ListingFailureSkipsOne ==
  [][ (\/ ev' \in {"listing_skipped", "back_failed"}
       \/ variant = "gb" /\ ev' = "save_raised") =>
        /\ pc \in {"listing", "save", "back"}
        /\ pc' = "listing" /\ i' = i + 1
        /\ nlinks' = nlinks /\ page_count' = page_count
        /\ all_businesses' = all_businesses
        /\ queries' = queries /\ li' = li /\ ci' = ci
        /\ exc' = "none" /\ scrape_run' = scrape_run ]_vars

\* C23 witness: on the first page of the first query the processing of
\* listing 0 raised without yielding a record, and listing 1 was then opened
\* and its record extracted.
C23_Witness ==
  /\ Len(queries) = 1 /\ page_count = 0 /\ InQuery
  /\ faults >= 1 /\ i = 1 /\ nlinks = 2
  /\ ev = "extracted" /\ extracted = 1

\* C24: a step in which the detail view of a listing never loads (v2, gb)
\* yields no record: nothing is extracted or handed to save_business, the
\* store and the counters are unchanged, nothing propagates, and the
\* navigator is about to go back; the step after it is go_back(), after
\* which, whether it returned or raised, the loop is at the next listing of
\* the same page.
C24_NoDetailViewNoRecord ==
  /\ [][ (ev' = "no_record" /\ variant # "v1") =>
           /\ pc = "listing" /\ pc' = "back" /\ i' = i
           /\ current' = None
           /\ dbVars' = dbVars /\ businesses_found' = businesses_found
           /\ extracted' = extracted /\ handed' = handed
           /\ all_businesses' = all_businesses
           /\ exc' = "none" /\ scrape_run' = scrape_run ]_vars
  /\ [][ (ev = "no_record" /\ pc = "back") =>
           /\ ev' \in {"back", "back_failed"}
           /\ pc' = "listing" /\ i' = i + 1
           /\ nlinks' = nlinks /\ page_count' = page_count ]_vars

\* C24 witness: in gb, with no call raising, the detail view of listing 0 of
\* the first page never loaded, and listing 1 was then opened and its record
\* extracted.
C24_Witness ==
  /\ variant = "gb" /\ faults = 0
  /\ Len(queries) = 1 /\ page_count = 0 /\ pc = "save"
  /\ i = 1 /\ nlinks = 2
  /\ ev = "extracted" /\ extracted = 1 /\ now = 0

(***************************************************************************)
(* Claims about the field extractor.                                       *)
(***************************************************************************)
\* the extractor was called on the detail view and has returned
Extracted == pc = "extracted" /\ view # None

\* the website check of the extractor raised on the view v
WebsiteCheckRaised(v) ==
  IF variant = "gb" THEN v.site.selector = "raises" ELSE v.site.menu = "raises"

\* C25: an exception raised while one field of a detail view that loaded is
\* being extracted (the read of the page content that phone, address and
\* rating are taken from, the website check) never costs the record: the
\* extractor returns a record with the name, and a website check that
\* raised leaves the website absent and nothing else.
C25_FieldErrorLeavesFieldAbsent ==
  (Extracted /\ view[1].panel # "timeout") =>
    /\ current # None
    /\ current[1].name = "A"
    /\ WebsiteCheckRaised(view[1]) =>
         ~current[1].has_website /\ current[1].website_url = None

\* C26: on a detail view that loaded and was read the extractor returns a record for every
\* combination of phone, address and rating patterns that match or do not:
\* the record carries the name, a field none of whose patterns matches is
\* absent, and a field with a matching pattern is populated; with no rating
\* token the rating is absent and name, phone and address are as extracted.
C26_UnmatchedFieldsAbsent ==
  (Extracted /\ view[1].panel \in {"main", "xpdopen"}) =>
    LET v == view[1] IN
      /\ current # None
      /\ current[1].name = "A"
      /\ current[1].phone = None <=>
           (v.tel = None /\ v.labeled = None /\ v.markup = None /\ v.bare = None)
      /\ current[1].address = None <=> (v.span_addr = None /\ v.num_addr = None)
      /\ current[1].rating = None <=> v.rating_token = None

\* C26 witness: a view with no rating token and no address, whose phone is
\* labeled, gave a record with the phone and with rating and address absent.
C26_Witness ==
  /\ pc = "extracted" /\ view # None /\ view[1].panel = "xpdopen"
  /\ view[1].rating_token = None /\ view[1].span_addr = None /\ view[1].num_addr = None
  /\ view[1].tel = None /\ view[1].labeled # None
  /\ current # None
  /\ current[1].rating = None /\ current[1].address = None
  /\ current[1].phone = view[1].labeled

\* C27: the phone of the record is the capture of the first strategy that
\* matches, in the order tel link, labeled phone, phone between markup
\* boundaries, bare digit grouping, without blanks around it and without a
\* leading tel: prefix; a view with a tel link to +18155551234 yields
\* +18155551234 whatever the other strategies would capture.
C27_PhoneFirstStrategyWins ==
  (Extracted /\ current # None) =>
    LET v == view[1] IN
      /\ current[1].phone =
           CASE v.tel # None -> Some(<<"+18155551234">>)
             [] v.tel = None /\ v.labeled # None -> v.labeled
             [] v.tel = None /\ v.labeled = None /\ v.markup # None -> v.markup
             [] v.tel = None /\ v.labeled = None /\ v.markup = None -> v.bare
      /\ current[1].phone # None => Head(current[1].phone[1]) \notin {"tel:", " "}

\* C27 witness: a view whose tel link carries a blank and a second tel:
\* prefix, and which also shows a labeled, a marked-up and a bare phone, gave
\* the number of the tel link.
C27_Witness ==
  /\ pc = "extracted" /\ view # None
  /\ view[1].tel = Some(<<" ", "tel:", "+18155551234">>)
  /\ view[1].labeled # None /\ view[1].markup # None /\ view[1].bare # None
  /\ current # None /\ current[1].phone = Some(<<"+18155551234">>)

(***************************************************************************)
(* Claims about the records.                                               *)
(***************************************************************************)
\* the names the name elements of the listings carry, in any browser
ListedNames == Names \cup { ScriptedListings[k].name : k \in 1..Len(ScriptedListings) }

\* C28: a listing without a name yields no record and no row: the record
\* extracted from a listing, each buffered record and every row of businesses
\* carries a name that was read from the name element of a listing.
C28_NamelessListingDiscarded ==
  /\ current # None => current[1].name \in ListedNames
  /\ \A k \in 1..Len(all_businesses) : all_businesses[k].name \in ListedNames
  /\ \A r \in businesses : r.name \in ListedNames

\* C29: the rating of the record the extractor returns, and of every row of
\* businesses, is absent or between 0 and 5 (0 to 50 tenths).
C29_RatingInRange ==
  /\ (Extracted /\ current # None) =>
       (current[1].rating = None \/ current[1].rating[1] \in 0..(5 * 10))
  /\ \A r \in businesses :
       r.google_rating = None \/ r.google_rating[1] \in 0..(5 * 10)

\* C30: a website_url that the URL-extracting strategy (v2) stores is never on
\* the source site's own domain or on a map, social, video or review
\* platform, whichever pattern captured it, and has_website is true exactly
\* when a website_url is stored.
C30_NoDenylistedWebsite ==
  (Extracted /\ current # None /\ variant = "v2") =>
    /\ current[1].has_website <=> current[1].website_url # None
    /\ current[1].website_url # None =>
         /\ current[1].website_url[1].domain \notin SocialDomains \cup {"google.com"}
         /\ current[1].website_url[1].sub # "maps."

(***************************************************************************)
(* Claims about the counters and the rows of the store, continued.         *)
(***************************************************************************)
\* C31: at every point of a run new_businesses_added equals the number of
\* business rows this run inserted and committed.  The table starts empty and
\* no row is ever deleted, so the rows inserted and committed by the run are
\* the rows of the table; an insert that was rolled back and an update of an
\* existing row leave the counter as it was.
C31_AddedCountsCommittedInserts ==
  new_businesses_added = Cardinality(businesses)

\* C32: one save_business call writes at most one row: of the rows of the
\* table after the call, at most one is new or differs from the row it was
\* before, also when several rows share the record's name and city.
C32_UpsertWritesOneRow ==
  [][ Cardinality(businesses' \ businesses) <= 1 ]_vars

(***************************************************************************)
(* Claims about the view the browser is on, and about its requests.        *)
(***************************************************************************)
\* The detail view of a listing is open: the listing was clicked and
\* page.go_back() has not been called since.  That is the case while the
\* record is handed on and before go_back, and at the start of the next
\* iteration when the listing's except branch was entered from save_business
\* (`continue` passes over go_back).
DetailViewOpen ==
  \/ pc \in {"save", "back"}
  \/ pc = "listing" /\ ev = "save_raised"

\* C33: at the start of every listing iteration the browser is on the
\* results view: whatever the listing before did, also when it raised after
\* its detail view was opened, the detail view is no longer open.
C33_IterationStartsOnResults ==
  pc = "listing" => ~DetailViewOpen

\* The detail views this run has opened for the records it extracted: v2 and
\* gb open the detail view of a listing with one click (parent_elem.click()
\* or element.click()) before extract_business_details reads it; v1 reads the
\* listing element and opens nothing.
DetailViewOpenings == IF variant = "v1" THEN 0 ELSE extracted

\* C34: every browser request counts toward the session-break threshold: as
\* long as no session break was taken, the browser requests of the run (the
\* searches and next-page steps, which call check_session_break, and the
\* detail-view openings) are at most REQUESTS_PER_SESSION.
C34_EveryRequestCounts ==
  breaks = 0 => requests + DetailViewOpenings <= REQUESTS_PER_SESSION

(***************************************************************************)
(* Claims about the configuration table.                                   *)
(***************************************************************************)
\* C35: the mode table is immutable: whatever entry points the process has
\* run, SCRAPE_MODES is the table config.py defines, and two scrapers
\* constructed in the same mode were given the same caps.
C35_ModeTableImmutable ==
  /\ scrape_modes = SCRAPE_MODES
  /\ \A a, b \in 1..Len(started) :
       started[a].mode = started[b].mode =>
         started[a].mode_config = started[b].mode_config

(***************************************************************************)
(* Claims about the collect-all adapter.                                   *)
(***************************************************************************)
\* search_businesses has returned or raised
AdapterExited == ev \in {"adapter_returned", "adapter_interrupted"}

\* C36: the adapter only collects: when search_businesses has returned or
\* raised, the store is as it was before the call, the three counters are as
\* they were (0), self.save_business is the original method again, and the
\* list holds one record per record extracted.
C36_AdapterOnlyCollects ==
  AdapterExited =>
    /\ businesses = {} /\ now = 0
    /\ businesses_found = 0
    /\ businesses_without_websites = 0
    /\ new_businesses_added = 0
    /\ save_business_attr = "original"
    /\ Len(temp_businesses) = extracted

(***************************************************************************)
(* Claims about what an update leaves alone.                               *)
(***************************************************************************)
\* C37: an update leaves the city, the category and the gbp_url of a row as
\* they are: no save_business call changes them in a row that exists, so a
\* row keeps those of the query under which it was inserted, also when its
\* gbp_url is sighted again under another location or category.
C37_UpdateKeepsQueryOfInsert ==
  [][ \A r \in businesses : \A q \in businesses' :
        q.id = r.id =>
          /\ q.city = r.city
          /\ q.category = r.category
          /\ q.gbp_url = r.gbp_url ]_vars

\* C37 witness: a record was sighted again by its gbp_url under another
\* location and another category than its row carries, and the row was
\* updated: it has the record's phone and address.
C37_Witness ==
  /\ lastSave.result = "updated"
  /\ lastSave.business.gbp_url # None
  /\ \E r \in businesses :
       /\ r.gbp_url = lastSave.business.gbp_url
       /\ r.city # City(lastSave.location)
       /\ r.category # lastSave.category
       /\ r.last_scraped = Some(now)
       /\ r.phone = lastSave.business.phone
       /\ r.address = lastSave.business.address
       /\ r.id = 1 /\ now = 2

(***************************************************************************)
(* Claims about the counters of a run and its ledger row.                  *)
(***************************************************************************)
\* the row of the run was finalized: update_scrape_run was committed
Finalized == scrape_run # None /\ scrape_run[1].status # "running"

\* C38: the three counters never decrease during a run; and whenever the row
\* of the run is finalized, businesses_without_websites and
\* new_businesses_added are at most businesses_found, and the row carries
\* the values the counters have.
C38_CountersConsistent ==
  /\ [][ /\ businesses_found' >= businesses_found
         /\ businesses_without_websites' >= businesses_without_websites
         /\ new_businesses_added' >= new_businesses_added ]_vars
  /\ [](Finalized =>
          /\ businesses_without_websites <= businesses_found
          /\ new_businesses_added <= businesses_found
          /\ scrape_run[1].businesses_found = Some(businesses_found)
          /\ scrape_run[1].businesses_without_websites =
               Some(businesses_without_websites)
          /\ scrape_run[1].new_businesses_added = Some(new_businesses_added))

\* C38 witness: a run was finalized as completed after two records were
\* counted, one of them new and one of them without a website.
C38_Witness ==
  /\ Finalized /\ scrape_run[1].status = "completed"
  /\ businesses_found = 2
  /\ new_businesses_added = 1
  /\ businesses_without_websites = 1

(***************************************************************************)
(* Claims about concurrent crawls.                                         *)
(***************************************************************************)
\* the two calls are of the same identity: the same gbp_url, or no gbp_url
\* and the same name and city
SameIdentity(w1, w2) ==
  IF w1.business.gbp_url # None \/ w2.business.gbp_url # None
    THEN w1.business.gbp_url = w2.business.gbp_url
    ELSE /\ w1.business.name = w2.business.name
         /\ City(w1.location) = City(w2.location)

\* C39: the lookup-then-write of an upsert is atomic with respect to other
\* writers: when two crawlers have upserted records of the same identity, in
\* whatever order their lookups, writes and commits were taken, the table
\* holds one row of that identity and neither call has raised.
C39_ConcurrentUpsertsOneRow ==
  \A p, q \in DOMAIN writers :
    ( /\ p # q
      /\ writers[p].stage = "done" /\ writers[q].stage = "done"
      /\ SameIdentity(writers[p], writers[q]) ) =>
        /\ Cardinality(Targets(businesses, writers[p])) = 1
        /\ writers[p].result # "raised" /\ writers[q].result # "raised"

(***************************************************************************)
(* Claims about termination.                                               *)
(***************************************************************************)
\* cleanup() was entered by the run that has exited
CleanupReached == ev \in {"cleaned", "cleanup_failed", "summary"}

\* C40: a run terminates: no (location, category) pair is searched twice, a
\* query processes at most max_pages pages and on each page no more listings
\* than the page was found to hold, and every run eventually exits, having
\* reached cleanup.
C40_RunTerminates ==
  /\ [](\A a, b \in 1..Len(queries) : a # b => queries[a] # queries[b])
  /\ [](page_count <= max_pages)
  /\ [](i <= nlinks)
  /\ [](Exited => CleanupReached)
  /\ <>Exited

====
